---- MODULE Spec2Model ----
(***************************************************************************)
(* Model of the cryptomus client library (package cryptomus).              *)
(*                                                                         *)
(* A Merchant and a User credential context issue signed requests to the   *)
(* provider; every operation decodes the provider's response envelope and  *)
(* aggregates its error carriers; the listing operations walk the          *)
(* provider's cursor chain; Merchant.VerifySign checks the signature of an *)
(* inbound webhook notification.                                           *)
(*                                                                         *)
(* Text is modelled as sequences of tokens (a token stands for its UTF-8   *)
(* rendering); base64, MD5 and hex are modelled as injective constructors  *)
(* (the digest is treated as collision-free).                              *)
(***************************************************************************)
EXTENDS Integers, Sequences, FiniteSets, TLC

\* ------------------------------------------------------------------------
\* Bounds of the model
\* ------------------------------------------------------------------------

\* longest page chain the provider serves for one listing call
MaxPages == 2

\* most requests one listing call is followed for
MaxRequests == 4

\* most `errors.<field>` lists populated in one response
MaxPopulated == 2

\* most digits after the point in an order book timestamp
MaxFractionDigits == 10

\* ------------------------------------------------------------------------
\* Values
\* ------------------------------------------------------------------------

\* a nil pointer / absent JSON member
NilPtr == "<nil>"

\* net/http: http.StatusOK
StatusOK == 200

StatusCodes == {200, 422, 500}

\* net/http: Response.Status, e.g. "200 OK"
StatusText(code) ==
    CASE code = 200 -> "200 OK"
      [] code = 422 -> "422 Unprocessable Entity"
      [] code = 500 -> "500 Internal Server Error"

Keys == {"keyA", "keyB"}

\* the payment and payout keys a Merchant is constructed with
MerchantKeyPairs == {<<"keyA", "keyB">>, <<"keyB", "keyA">>, <<"keyA", "keyA">>}

\* the payment and payout keys a User is constructed with
UserKeyPairs == {<<"keyA", "keyB">>}

RECURSIVE Concat(_)
\* concatenation of a sequence of sequences
Concat(ss) == IF ss = <<>> THEN <<>> ELSE Head(ss) \o Concat(Tail(ss))

RECURSIVE Join(_, _)
\* strings.Join(elems, sep)
Join(elems, sep) ==
    IF elems = <<>> THEN <<>>
    ELSE IF Len(elems) = 1 THEN <<elems[1]>>
    ELSE <<elems[1], sep>> \o Join(Tail(elems), sep)

\* the elements of a sequence
Range(s) == {s[i] : i \in DOMAIN s}

\* ------------------------------------------------------------------------
\* encoding/json: Marshal
\* ------------------------------------------------------------------------

\* one struct field: JSON key, value (a string or NilPtr), omitempty tag
Field(k, v, omit) == [key |-> k, val |-> v, omitempty |-> omit]

\* json.Marshal of one struct field: nothing for an omitted nil pointer,
\* `"key":null` for a nil pointer, `"key":<value>` otherwise
MarshalField(f) ==
    IF f.val = NilPtr
    THEN IF f.omitempty THEN <<>> ELSE <<<<f.key, "null", "">>>>
    ELSE <<<<f.key, "value", f.val>>>>

\* json.Marshal(request): `null` for nil, `{}` for struct{}{}, otherwise the
\* members in struct field order
Marshal(request) ==
    IF request.kind = "nil" THEN <<"null">>
    ELSE <<"{">>
         \o Concat([i \in DOMAIN request.fields |-> MarshalField(request.fields[i])])
         \o <<"}">>

RequestNil == [kind |-> "nil", fields |-> <<>>]

RequestEmptyStruct == [kind |-> "struct", fields |-> <<>>]

\* ------------------------------------------------------------------------
\* Digest signer
\* ------------------------------------------------------------------------

\* base64.StdEncoding.EncodeToString: an injective encoding of the bytes
Base64Encode(data) == <<"base64", data>>

\* md5.Sum over the encoded text followed by the key (collision-free)
MD5Sum(text, key) == <<"md5", text, key>>

\* hex.EncodeToString
HexEncode(hash) == <<"hex", hash>>

\* Merchant.signPaymentPayload appending the payout key
MerchantSignPaymentPayload_PayoutKey(m, jsonData) ==
    HexEncode(MD5Sum(Base64Encode(jsonData), m.PayoutAPIKey))

MerchantSignPaymentPayload(m, jsonData) ==
    HexEncode(MD5Sum(Base64Encode(jsonData), m.PaymentAPIKey))

MerchantSignPayoutPayload(m, jsonData) ==
    HexEncode(MD5Sum(Base64Encode(jsonData), m.PayoutAPIKey))

UserSignPaymentPayload(u, jsonData) ==
    HexEncode(MD5Sum(Base64Encode(jsonData), u.PaymentAPIKey))

\* User.signPayoutPayload digesting the raw bytes instead of their base64 text
UserSignPayoutPayload_NoBase64(u, jsonData) ==
    HexEncode(MD5Sum(<<"raw", jsonData>>, u.PayoutAPIKey))

UserSignPayoutPayload(u, jsonData) ==
    HexEncode(MD5Sum(Base64Encode(jsonData), u.PayoutAPIKey))

\* the error value each of the four signers returns next to the token: nil
SignerError(jsonData) == NilPtr

\* ------------------------------------------------------------------------
\* Signed request envelope
\* ------------------------------------------------------------------------

\* the request handed to client.Do
HTTPRequest(method, url, body, idHeader, identity, signature) ==
    [method |-> method, url |-> url, body |-> body,
     header |-> [ContentType |-> "application/json",
                 idName |-> idHeader, idValue |-> identity,
                 sign |-> signature]]

\* sendPaymentRequest signing a second serialization that drops the members
MerchantSendPaymentRequest_SignsOtherBytes(m, method, url, request) ==
    LET jsonData == Marshal(request)
    IN HTTPRequest(method, url, jsonData, "merchant", m.MerchantUUID,
                   MerchantSignPaymentPayload(m, Marshal(RequestEmptyStruct)))

MerchantSendPaymentRequest(m, method, url, request) ==
    LET jsonData == Marshal(request)
    IN HTTPRequest(method, url, jsonData, "merchant", m.MerchantUUID,
                   MerchantSignPaymentPayload(m, jsonData))

\* Merchant.sendPayoutRequest setting the `merchant` header to the payout key
MerchantSendPayoutRequest_KeyInHeader(m, method, url, request) ==
    LET jsonData == Marshal(request)
    IN HTTPRequest(method, url, jsonData, "merchant", m.PayoutAPIKey,
                   MerchantSignPayoutPayload(m, jsonData))

MerchantSendPayoutRequest(m, method, url, request) ==
    LET jsonData == Marshal(request)
    IN HTTPRequest(method, url, jsonData, "merchant", m.MerchantUUID,
                   MerchantSignPayoutPayload(m, jsonData))

UserSendPaymentRequest(u, method, url, request) ==
    LET jsonData == Marshal(request)
    IN HTTPRequest(method, url, jsonData, "userId", u.UserID,
                   UserSignPaymentPayload(u, jsonData))

UserSendPayoutRequest(u, method, url, request) ==
    LET jsonData == Marshal(request)
    IN HTTPRequest(method, url, jsonData, "userId", u.UserID,
                   UserSignPayoutPayload(u, jsonData))

\* ------------------------------------------------------------------------
\* Operations: what each wrapper passes to the envelope and which error
\* carriers its response struct declares
\* ------------------------------------------------------------------------

\* persona/context: the send function called; errFields: the `errors.<field>`
\* lists in the order they are appended; errorsPtr: `Errors` is a pointer;
\* collect: "always", or "onFailure" when the carriers are read only under a
\* non-200 status or non-zero state; order: where the `error` string goes;
\* test: the condition of the failure return, "status-state-errs" for
\* `StatusCode != http.StatusOK || response.State != 0 || len(errs) > 0`;
\* hasResult: the function returns `&response.Result` next to the error
Operation(persona, context, method, url, errFields, errorsPtr, collect, order, prefix) ==
    [persona |-> persona, context |-> context, method |-> method, url |-> url,
     errFields |-> errFields, errorsPtr |-> errorsPtr, collect |-> collect,
     order |-> order, prefix |-> prefix,
     test |-> "status-state-errs", hasResult |-> TRUE, indexesResult |-> FALSE]

CreateInvoice ==
    Operation("Merchant", "payment", "POST", "urlCreateInvoice",
              <<"amount", "currency", "order_id">>, FALSE, "always",
              "error-first", "error with status ")

CreatePayout ==
    Operation("Merchant", "payout", "POST", "urlCreatePayout",
              <<"amount", "currency", "order_id", "address", "is_subtract", "network">>,
              FALSE, "always", "error-first", "error with status ")

GetPaymentInformation ==
    Operation("Merchant", "payment", "POST", "urlGetPaymentInformation",
              <<"uuid", "order_id">>, FALSE, "always", "error-first",
              "error getting payment information with status ")

GetPayoutInformation ==
    Operation("Merchant", "payout", "POST", "urlGetPayoutInformation",
              <<"uuid", "order_id">>, FALSE, "always", "error-first",
              "error with status ")

CreateStaticWallet ==
    Operation("Merchant", "payment", "POST", "urlCreateStaticWallet",
              <<"currency", "network", "order_id">>, FALSE, "always",
              "error-first", "error creating static wallet with status ")

TransferToPersonalWallet ==
    Operation("Merchant", "payout", "POST", "urlTransferToPersonalWallet",
              <<"amount", "currency">>, TRUE, "always", "error-first",
              "error creating invoice with status ")

\* the second transfer function posts to urlCreateInvoice
TransferToBusinessWallet ==
    Operation("Merchant", "payout", "POST", "urlCreateInvoice",
              <<"amount", "currency">>, TRUE, "always", "error-first",
              "error creating invoice with status ")

\* Refund returns only an error
\* Merchant.GetBalance: no request value; returns the balance lists of the
\* first element of `result`
GetBalance ==
    [Operation("Merchant", "payment", "POST", "urlGetBalanceForMerchant",
               <<>>, FALSE, "always", "error-first", "error with status ")
        EXCEPT !.indexesResult = TRUE]

Refund ==
    [Operation("Merchant", "payment", "POST", "urlRefund",
               <<"uuid", "order_id", "address">>, FALSE, "always", "error-first",
               "error processing refund with status ")
        EXCEPT !.hasResult = FALSE]

\* the failure return of GenerateQRCodeForStaticWallet tests `len(errs) > 0` only
GenerateQRCodeForStaticWallet ==
    [Operation("Merchant", "payment", "POST", "urlGenerateQRCodeForStaticWallet",
               <<"wallet_address_uuid">>, FALSE, "onFailure", "error-last",
               "error creating QR code for static wallet with status ")
        EXCEPT !.test = "errs"]

\* GenerateQRCodeForInvoice posts to urlGenerateQRCodeForStaticWallet
GenerateQRCodeForInvoice ==
    Operation("Merchant", "payment", "POST", "urlGenerateQRCodeForStaticWallet",
              <<"merchant_payment_uuid">>, FALSE, "always", "error-last",
              "error creating QR code for invoice with status ")

CreateMarketOrder ==
    Operation("User", "payment", "POST", "urlCreateMarketOrder",
              <<"from", "to", "amount">>, FALSE, "always", "error-first",
              "error creating market order with status ")

CalculateConvert ==
    Operation("User", "payment", "POST", "urlCalculateConvert",
              <<"from", "to", "from_amount", "to_amount">>, FALSE, "always",
              "error-first", "error calculating convert with status ")

\* the URL of CancelLimitOrder is urlCancelLimitOrder formatted with the
\* caller's orderUuid
CancelLimitOrder ==
    Operation("User", "payment", "DELETE", "urlCancelLimitOrder",
              <<>>, FALSE, "always", "error-first",
              "error cancelling limit order with status ")

ListPaymentHistory ==
    Operation("Merchant", "payment", "POST", "urlListPaymentHistory",
              <<"date_from", "date_to">>, FALSE, "onFailure", "error-last",
              "error with status ")

nextPaymentHistoryPage ==
    Operation("Merchant", "payment", "POST", "urlListPaymentHistory",
              <<>>, FALSE, "always", "error-first", "error with status ")

ListPayoutHistory ==
    Operation("Merchant", "payout", "POST", "urlListPayoutHistory",
              <<"date_from", "date_to">>, FALSE, "onFailure", "error-last",
              "error with status ")

\* nextPayoutHistoryPage calling sendPaymentRequest
nextPayoutHistoryPage_PaymentKey ==
    Operation("Merchant", "payment", "POST", "urlListPayoutHistory",
              <<>>, FALSE, "always", "error-first", "error with status ")

nextPayoutHistoryPage ==
    Operation("Merchant", "payout", "POST", "urlListPayoutHistory",
              <<>>, FALSE, "always", "error-first", "error with status ")

ListRecurringPayments ==
    Operation("Merchant", "payment", "POST", "urlListRecurringPayments",
              <<>>, FALSE, "onFailure", "error-first", "error with status ")

nextRecurringPaymentHistoryPage ==
    Operation("Merchant", "payment", "POST", "urlListRecurringPayments",
              <<>>, FALSE, "always", "error-first",
              "error retrieving next page of payment history with status ")

ListOrderHistory ==
    Operation("User", "payment", "GET", "urlListOrderHistory",
              <<>>, FALSE, "always", "error-first", "error with status ")

nextOrderHistoryPage ==
    Operation("User", "payment", "GET", "urlListOrderHistory",
              <<>>, FALSE, "always", "error-first", "error with status ")

SimpleOps ==
    {"CreateInvoice", "CreatePayout", "GetPaymentInformation",
     "GetPayoutInformation", "CreateStaticWallet", "TransferToPersonalWallet",
     "TransferToBusinessWallet", "Refund", "GenerateQRCodeForStaticWallet",
     "GenerateQRCodeForInvoice", "CreateMarketOrder", "CalculateConvert",
     "CancelLimitOrder", "GetBalance"}

ListingOps ==
    {"ListPaymentHistory", "ListPayoutHistory", "ListRecurringPayments",
     "ListOrderHistory"}

Ops == SimpleOps \cup ListingOps

\* the operations that are methods of User
UserOps == {"ListOrderHistory", "CreateMarketOrder", "CalculateConvert", "CancelLimitOrder"}

\* the wrapper of the first (or only) request of an operation
OpDesc(op) ==
    CASE op = "CreateInvoice" -> CreateInvoice
      [] op = "CreatePayout" -> CreatePayout
      [] op = "GetPaymentInformation" -> GetPaymentInformation
      [] op = "GetPayoutInformation" -> GetPayoutInformation
      [] op = "CreateStaticWallet" -> CreateStaticWallet
      [] op = "TransferToPersonalWallet" -> TransferToPersonalWallet
      [] op = "TransferToBusinessWallet" -> TransferToBusinessWallet
      [] op = "Refund" -> Refund
      [] op = "GenerateQRCodeForStaticWallet" -> GenerateQRCodeForStaticWallet
      [] op = "GenerateQRCodeForInvoice" -> GenerateQRCodeForInvoice
      [] op = "CreateMarketOrder" -> CreateMarketOrder
      [] op = "CalculateConvert" -> CalculateConvert
      [] op = "CancelLimitOrder" -> CancelLimitOrder
      [] op = "GetBalance" -> GetBalance
      [] op = "ListPaymentHistory" -> ListPaymentHistory
      [] op = "ListPayoutHistory" -> ListPayoutHistory
      [] op = "ListRecurringPayments" -> ListRecurringPayments
      [] op = "ListOrderHistory" -> ListOrderHistory

\* the page fetcher a listing operation calls in its loop
NextDesc(op) ==
    CASE op = "ListPaymentHistory" -> nextPaymentHistoryPage
      [] op = "ListPayoutHistory" -> nextPayoutHistoryPage
      [] op = "ListRecurringPayments" -> nextRecurringPaymentHistoryPage
      [] op = "ListOrderHistory" -> nextOrderHistoryPage

\* ------------------------------------------------------------------------
\* Request values the callers pass in
\* ------------------------------------------------------------------------

\* Invoice{Amount, Currency, OrderID, Network *string `omitempty`}
InvoiceRequests ==
    {[kind |-> "struct",
      fields |-> <<Field("amount", a, FALSE), Field("currency", "USDT", FALSE),
                   Field("order_id", "o1", FALSE), Field("network", n, TRUE)>>]
        : a \in {"10", "20"}, n \in {NilPtr, "tron"}}

\* Withdrawal{Amount, Currency, OrderID, Address, Network *string `omitempty`}
WithdrawalRequests ==
    {[kind |-> "struct",
      fields |-> <<Field("amount", a, FALSE), Field("currency", "USDT", FALSE),
                   Field("order_id", "o1", FALSE), Field("address", "T1", FALSE),
                   Field("network", n, TRUE)>>]
        : a \in {"10", "20"}, n \in {NilPtr, "tron"}}

\* RecordID{UUID, OrderID *string `omitempty`}
RecordIDRequests ==
    {[kind |-> "struct",
      fields |-> <<Field("uuid", u, TRUE), Field("order_id", o, TRUE)>>]
        : u \in {NilPtr, "u1"}, o \in {NilPtr, "o1"}}

\* StaticWalletRequest{Currency, Network, OrderID}
StaticWalletRequests ==
    {[kind |-> "struct",
      fields |-> <<Field("currency", "USDT", FALSE), Field("network", n, FALSE),
                   Field("order_id", "o1", FALSE)>>]
        : n \in {"tron", "bsc"}}

\* TransferRequest{Amount, Currency}
TransferRequests ==
    {[kind |-> "struct",
      fields |-> <<Field("amount", a, FALSE), Field("currency", "USDT", FALSE)>>]
        : a \in {"10", "20"}}

\* RefundRequest{RecordID (embedded), Address, IsSubtract}
RefundRequests ==
    {[kind |-> "struct",
      fields |-> <<Field("uuid", u, TRUE), Field("order_id", NilPtr, TRUE),
                   Field("address", "T1", FALSE), Field("is_subtract", b, FALSE)>>]
        : u \in {NilPtr, "u1"}, b \in {"true", "false"}}

\* QRCodeForStaticWalletRequest{WalletAddressUUID}
QRCodeForStaticWalletRequests ==
    {[kind |-> "struct", fields |-> <<Field("wallet_address_uuid", u, FALSE)>>]
        : u \in {"w1", "w2"}}

\* QRCodeForInvoiceRequest{MerchantPaymentUUID}
QRCodeForInvoiceRequests ==
    {[kind |-> "struct", fields |-> <<Field("merchant_payment_uuid", u, FALSE)>>]
        : u \in {"p1", "p2"}}

\* MarketOrderRequest{From, To, Amount}
MarketOrderRequests ==
    {[kind |-> "struct",
      fields |-> <<Field("from", "BTC", FALSE), Field("to", "USDT", FALSE),
                   Field("amount", a, FALSE)>>]
        : a \in {"0.0001", "0.0002"}}

\* Convert{From, To, FromAmount, ToAmount}
ConvertRequests ==
    {[kind |-> "struct",
      fields |-> <<Field("from", "BTC", FALSE), Field("to", "USDT", FALSE),
                   Field("from_amount", a, FALSE), Field("to_amount", "", FALSE)>>]
        : a \in {"0.001", "0.002"}}

\* the orderUuid argument of CancelLimitOrder: an identifier, or text with a
\* control character, which net/url refuses to parse
OrderUuids ==
    {[kind |-> "path", fields |-> <<Field("orderUuid", u, FALSE)>>]
        : u \in {"uuid-1", "uuid-2", "<control character>"}}

\* HistoryRequest{DateFrom, DateTo *string `omitempty`}
HistoryRequests ==
    {[kind |-> "struct",
      fields |-> <<Field("date_from", f, TRUE), Field("date_to", NilPtr, TRUE)>>]
        : f \in {NilPtr, "2024-01-01 00:00:00"}}

\* the request values an operation is called with (none for the operations
\* without a request parameter)
RequestsOf(op) ==
    CASE op = "CreateInvoice" -> InvoiceRequests
      [] op = "CreatePayout" -> WithdrawalRequests
      [] op \in {"GetPaymentInformation", "GetPayoutInformation"} -> RecordIDRequests
      [] op = "CreateStaticWallet" -> StaticWalletRequests
      [] op \in {"TransferToPersonalWallet", "TransferToBusinessWallet"} -> TransferRequests
      [] op = "Refund" -> RefundRequests
      [] op = "GenerateQRCodeForStaticWallet" -> QRCodeForStaticWalletRequests
      [] op = "GenerateQRCodeForInvoice" -> QRCodeForInvoiceRequests
      [] op = "CreateMarketOrder" -> MarketOrderRequests
      [] op = "CalculateConvert" -> ConvertRequests
      [] op = "CancelLimitOrder" -> OrderUuids
      [] op \in {"ListPaymentHistory", "ListPayoutHistory"} -> HistoryRequests
      [] op \in {"ListRecurringPayments", "ListOrderHistory", "GetBalance"} -> {RequestNil}

\* the order-type and order-status filters of ListOrderHistory
OrderTypes == {"", "market"}

OrderStatuses == {"", "active"}

\* ------------------------------------------------------------------------
\* The provider: pages and response envelopes
\* ------------------------------------------------------------------------

\* the opaque continuation tokens the provider hands out, by page number
Cursors == <<"abc", "def", "ghi", "jkl">>

\* item lists a page may hold (unsorted, with an item that recurs in every page)
PageItems(i) == {<<>>, <<2 * i, 2 * i - 1>>, <<2 * i, 9>>}

RECURSIVE ChainsOfLen(_)
\* the chains of n pages: chain[i] is the item list of page i
ChainsOfLen(n) ==
    IF n = 0 THEN {<<>>}
    ELSE {Append(c, its) : c \in ChainsOfLen(n - 1), its \in PageItems(n)}

Chains == UNION {ChainsOfLen(n) : n \in 1..MaxPages}

\* result.items and result.paginate.nextCursor of page i of a chain
PageOf(chain, i) ==
    [items |-> chain[i],
     nextCursor |-> IF i < Len(chain) THEN Cursors[i] ELSE ""]

ZeroPage == [items |-> <<>>, nextCursor |-> ""]

\* the value of the `cursor` query parameter of a request URL: the text
\* between "?cursor=" and the end of the URL
CursorParam(url) ==
    IF Len(url) >= 2 /\ url[2] = "?cursor=" THEN SubSeq(url, 3, Len(url)) ELSE <<>>

\* the number of the page a request asks for: 1 without a cursor, i+1 for the
\* cursor of page i, 0 for a cursor the provider never issued
PageAsked(chain, url) ==
    IF CursorParam(url) = <<>> THEN 1
    ELSE IF \E i \in 1..(Len(chain) - 1) : CursorParam(url) = <<Cursors[i]>>
         THEN 1 + CHOOSE i \in 1..(Len(chain) - 1) : CursorParam(url) = <<Cursors[i]>>
         ELSE 0

Payloads == {"payload1", "payload2"}

\* a `result` list that is empty or absent
EmptyList == "[]"

\* the `result` values the provider may send for descriptor d
ResultPayloads(d) == IF d.indexesResult THEN Payloads \cup {EmptyList} ELSE Payloads

Messages == {"", "Server error"}

ErrorStrings == {"", "Not found"}

ErrLists == {<<"validation.required">>, <<"validation.min", "validation.max">>}

\* the members the provider may put in `errors`: the operation's recognized
\* fields and one the response struct does not declare
WireFields(d) == Range(d.errFields) \cup {"other"}

\* the `errors` objects: at most MaxPopulated members, each a non-empty list
ErrorsObjects(d) ==
    UNION {[S -> ErrLists] : S \in {T \in SUBSET WireFields(d) : Cardinality(T) <= MaxPopulated}}

\* a response as client.Do and the decoder see it
Response(kind, status, state, message, error, hasErrors, errors, payload, page) ==
    [kind |-> kind, status |-> status, state |-> state, message |-> message,
     error |-> error, hasErrors |-> hasErrors, errors |-> errors,
     payload |-> payload, page |-> page]

\* the network call fails: no response
TransportFailures == {Response("neterr", 0, 0, "", "", FALSE, <<>>, NilPtr, ZeroPage)}

\* a response whose body is not the JSON envelope
UndecodableResponses ==
    {Response("garbage", st, 0, "", "", FALSE, <<>>, NilPtr, ZeroPage) : st \in StatusCodes}

\* the JSON envelopes for descriptor d carrying the given result
Envelopes(d, payloads, pages) ==
    {Response("json", st, state, msg, err, TRUE, errs, pl, pg) :
        st \in StatusCodes, state \in {0, 1}, msg \in Messages, err \in ErrorStrings,
        errs \in ErrorsObjects(d), pl \in payloads, pg \in pages}
    \cup
    {Response("json", st, state, msg, err, FALSE, <<>>, pl, pg) :
        st \in StatusCodes, state \in {0, 1}, msg \in Messages, err \in ErrorStrings,
        pl \in payloads, pg \in pages}

\* everything that can come back for a request of a non-listing operation
SimpleResponses(d) ==
    TransportFailures \cup UndecodableResponses \cup Envelopes(d, ResultPayloads(d), {ZeroPage})

\* everything that can come back for a page request: the envelope carries the
\* page asked for; a cursor the provider never issued gets no success envelope
PageResponses(d, chain, url) ==
    TransportFailures \cup UndecodableResponses \cup
    IF PageAsked(chain, url) = 0
    THEN {r \in Envelopes(d, {NilPtr}, {ZeroPage}) : r.status # StatusOK /\ r.state # 0}
    ELSE Envelopes(d, {NilPtr}, {PageOf(chain, PageAsked(chain, url))})

NoResponse == Response("none", 0, 0, "", "", FALSE, <<>>, NilPtr, ZeroPage)

\* what is kept of a response once a later one has arrived: how it ended,
\* whether a carrier the response struct declares was populated, and the
\* cursor it carried
Summary(d, resp) ==
    [kind |-> resp.kind, status |-> resp.status, state |-> resp.state,
     carriers |-> \/ resp.message # ""
                  \/ resp.error # ""
                  \/ \E f \in Range(d.errFields) : resp.hasErrors /\ f \in DOMAIN resp.errors,
     nextCursor |-> resp.page.nextCursor]

\* ------------------------------------------------------------------------
\* Response decoder and error aggregator
\* ------------------------------------------------------------------------

\* response.Errors.<field> after decoding: the list the provider sent, or nil
ErrorsField(resp, f) ==
    IF resp.hasErrors /\ f \in DOMAIN resp.errors THEN resp.errors[f] ELSE <<>>

\* CollectErrs without the first `errs = append(errs, response.Errors.X...)`
CollectErrs_FirstFieldDropped(d, resp) ==
    LET msg == IF resp.message # "" THEN <<resp.message>> ELSE <<>>
        err == IF resp.error # "" THEN <<resp.error>> ELSE <<>>
        flds == Concat([i \in DOMAIN d.errFields |->
                          IF i = 1 THEN <<>> ELSE ErrorsField(resp, d.errFields[i])])
        all == IF d.order = "error-first" THEN msg \o err \o flds ELSE msg \o flds \o err
    IN IF d.collect = "onFailure" /\ resp.status = StatusOK /\ resp.state = 0
       THEN <<>>
       ELSE all

\* the `errs` slice the operation builds from the decoded envelope
CollectErrs(d, resp) ==
    LET msg == IF resp.message # "" THEN <<resp.message>> ELSE <<>>
        err == IF resp.error # "" THEN <<resp.error>> ELSE <<>>
        flds == Concat([i \in DOMAIN d.errFields |-> ErrorsField(resp, d.errFields[i])])
        all == IF d.order = "error-first" THEN msg \o err \o flds ELSE msg \o flds \o err
    IN IF d.collect = "onFailure" /\ resp.status = StatusOK /\ resp.state = 0
       THEN <<>>
       ELSE all

\* what a call hands back to its caller
Outcome(kind, text, payload, items) ==
    [kind |-> kind, text |-> text, payload |-> payload, items |-> items]

NoOutcome == Outcome("none", <<>>, NilPtr, <<>>)

\* the condition under which the function returns its business error
FailureTest(d, resp, errs) ==
    IF d.test = "errs"
    THEN Len(errs) > 0
    ELSE resp.status # StatusOK \/ resp.state # 0 \/ Len(errs) > 0

\* `&response.Result` of the success return; nothing for a function that
\* returns only an error
Result(d, resp) == IF d.hasResult THEN resp.payload ELSE NilPtr

\* the final return of a wrapper; `response.Result[0]` panics with an index
\* out of range when the decoded list has no element
Success(d, resp) ==
    IF d.indexesResult /\ resp.payload = EmptyList
    THEN Outcome("panic", <<"index out of range [0] with length 0">>, NilPtr, <<>>)
    ELSE Outcome("ok", <<>>, Result(d, resp), resp.page.items)

\* Decode with the `response.State != 0` test left out
Decode_NoStateTest(d, resp) ==
    IF resp.kind = "neterr"
    THEN Outcome("transport", <<"error sending request: ">>, NilPtr, <<>>)
    ELSE IF resp.kind = "garbage"
    THEN Outcome("decode", <<"error decoding response: ">>, NilPtr, <<>>)
    ELSE IF d.errorsPtr /\ ~resp.hasErrors
    THEN Outcome("panic", <<"nil pointer dereference">>, NilPtr, <<>>)
    ELSE LET errs == CollectErrs(d, resp)
         IN IF resp.status # StatusOK \/ Len(errs) > 0
            THEN Outcome("business",
                         <<d.prefix, StatusText(resp.status), ": ">> \o Join(errs, "; "),
                         NilPtr, <<>>)
            ELSE Success(d, resp)

\* Decode returning no error when client.Do failed
Decode_TransportSwallowed(d, resp) ==
    IF resp.kind = "neterr"
    THEN Outcome("ok", <<>>, NilPtr, <<>>)
    ELSE IF resp.kind = "garbage"
    THEN Outcome("decode", <<"error decoding response: ">>, NilPtr, <<>>)
    ELSE IF d.errorsPtr /\ ~resp.hasErrors
    THEN Outcome("panic", <<"nil pointer dereference">>, NilPtr, <<>>)
    ELSE LET errs == CollectErrs(d, resp)
         IN IF FailureTest(d, resp, errs)
            THEN Outcome("business",
                         <<d.prefix, StatusText(resp.status), ": ">> \o Join(errs, "; "),
                         NilPtr, <<>>)
            ELSE Success(d, resp)

\* Decode testing the HTTP status before it decodes the body
Decode_StatusBeforeDecoding(d, resp) ==
    IF resp.kind = "neterr"
    THEN Outcome("transport", <<"error sending request: ">>, NilPtr, <<>>)
    ELSE IF resp.kind = "garbage" /\ resp.status # StatusOK
    THEN Outcome("business", <<d.prefix, StatusText(resp.status), ": ">>, NilPtr, <<>>)
    ELSE IF resp.kind = "garbage"
    THEN Outcome("decode", <<"error decoding response: ">>, NilPtr, <<>>)
    ELSE IF d.errorsPtr /\ ~resp.hasErrors
    THEN Outcome("panic", <<"nil pointer dereference">>, NilPtr, <<>>)
    ELSE LET errs == CollectErrs(d, resp)
         IN IF FailureTest(d, resp, errs)
            THEN Outcome("business",
                         <<d.prefix, StatusText(resp.status), ": ">> \o Join(errs, "; "),
                         NilPtr, <<>>)
            ELSE Success(d, resp)

\* the part of an operation after client.Do: transport failure, decoding
\* failure, nil dereference of a pointer-typed `Errors`, business failure, or
\* the decoded result
Decode(d, resp) ==
    IF resp.kind = "neterr"
    THEN Outcome("transport", <<"error sending request: ">>, NilPtr, <<>>)
    ELSE IF resp.kind = "garbage"
    THEN Outcome("decode", <<"error decoding response: ">>, NilPtr, <<>>)
    ELSE IF d.errorsPtr /\ ~resp.hasErrors
    THEN Outcome("panic", <<"nil pointer dereference">>, NilPtr, <<>>)
    ELSE LET errs == CollectErrs(d, resp)
         IN IF FailureTest(d, resp, errs)
            THEN Outcome("business",
                         <<d.prefix, StatusText(resp.status), ": ">> \o Join(errs, "; "),
                         NilPtr, <<>>)
            ELSE Success(d, resp)

\* ------------------------------------------------------------------------
\* Webhook signature verifier
\* ------------------------------------------------------------------------

\* the members of Update other than `sign`, in declaration order
UpdateFields ==
    <<"type", "uuid", "order_id", "amount", "payment_amount", "payment_amount_usd",
      "merchant_amount", "commission", "is_final", "status", "from",
      "wallet_address_uuid", "network", "currency", "payer_currency",
      "payer_amount", "additional_data", "convert", "txid">>

\* paymentUpdateWithoutSignature without its Amount member
PaymentUpdateFields_AmountDropped ==
    <<"type", "uuid", "order_id", "payment_amount", "payment_amount_usd",
      "merchant_amount", "commission", "is_final", "status", "from",
      "wallet_address_uuid", "network", "currency", "payer_currency",
      "additional_data", "convert", "txid">>

\* the members of paymentUpdateWithoutSignature, in declaration order
PaymentUpdateFields ==
    <<"type", "uuid", "order_id", "amount", "payment_amount", "payment_amount_usd",
      "merchant_amount", "commission", "is_final", "status", "from",
      "wallet_address_uuid", "network", "currency", "payer_currency",
      "additional_data", "convert", "txid">>

\* the members of payoutUpdateWithoutSignature, in declaration order
PayoutUpdateFields ==
    <<"type", "uuid", "order_id", "amount", "merchant_amount", "commission",
      "is_final", "status", "txid", "currency", "network", "payer_currency",
      "payer_amount">>

\* json.Marshal of *AutomaticConvert: null, or the four members
MarshalConvert(c) ==
    IF c = <<>> THEN <<"null">>
    ELSE <<"{">>
         \o MarshalField(Field("to_currency", c[1], FALSE))
         \o MarshalField(Field("commission", c[2], FALSE))
         \o MarshalField(Field("rate", c[3], FALSE))
         \o MarshalField(Field("amount", c[4], FALSE))
         \o <<"}">>

\* json.Marshal of one member of a notification struct (no omitempty)
MarshalUpdateField(update, k) ==
    IF k = "convert"
    THEN <<<<k, "object", MarshalConvert(update[k])>>>>
    ELSE MarshalField(Field(k, update[k], FALSE))

\* json.Marshal of the struct built from the named members of the update
MarshalUpdate(update, names) ==
    <<"{">> \o Concat([i \in DOMAIN names |-> MarshalUpdateField(update, names[i])]) \o <<"}">>

\* VerifySign signing the payout member set with the payment key
VerifySign_PayoutWithPaymentKey(m, update) ==
    IF update["type"] = NilPtr THEN "panic"
    ELSE IF update["type"] \in {"payment", "wallet"}
    THEN IF MerchantSignPaymentPayload(m, MarshalUpdate(update, PaymentUpdateFields)) = update["sign"]
         THEN "ok" ELSE "mismatch"
    ELSE IF update["type"] = "payout"
    THEN IF MerchantSignPaymentPayload(m, MarshalUpdate(update, PayoutUpdateFields)) = update["sign"]
         THEN "ok" ELSE "mismatch"
    ELSE "unsupported"

\* Merchant.VerifySign: "panic" when Type is nil (`*update.Type`),
\* "unsupported" for a type other than payment, wallet and payout,
\* "mismatch" when the recomputed signature differs, "ok" otherwise
VerifySign(m, update) ==
    IF update["type"] = NilPtr THEN "panic"
    ELSE IF update["type"] \in {"payment", "wallet"}
    THEN IF MerchantSignPaymentPayload(m, MarshalUpdate(update, PaymentUpdateFields)) = update["sign"]
         THEN "ok" ELSE "mismatch"
    ELSE IF update["type"] = "payout"
    THEN IF MerchantSignPayoutPayload(m, MarshalUpdate(update, PayoutUpdateFields)) = update["sign"]
         THEN "ok" ELSE "mismatch"
    ELSE "unsupported"

\* the error VerifySign returns
VerifyErrorText(result) ==
    CASE result = "ok" -> <<>>
      [] result = "mismatch" -> <<"signature mismatch">>
      [] result = "unsupported" -> <<"unsupported type: ", "cryptomus.Update">>
      [] result = "panic" -> <<"nil pointer dereference">>

\* the `type` values a notification may arrive with (NilPtr: no type member)
UpdateTypes == {"payment", "wallet", "payout", "refund", NilPtr}

\* a signature that is no digest of the notification
ForgedSign == HexEncode(MD5Sum(Base64Encode(<<"forged">>), "forged"))

\* a notification of type t as the sender composed it, before signing
ComposedUpdate(t) ==
    [k \in Range(UpdateFields) \cup {"sign"} |->
        CASE k = "type" -> t
          [] k = "uuid" -> "2b852d86"
          [] k = "order_id" -> "129359"
          [] k = "amount" -> "207.00000000"
          [] k = "payment_amount" -> "207.10000000"
          [] k = "payment_amount_usd" -> "207.20"
          [] k = "merchant_amount" -> "207.30000000"
          [] k = "commission" -> "0.30000000"
          [] k = "is_final" -> "true"
          [] k = "status" -> "paid"
          [] k = "from" -> "THgEWubVc8tPKXLJ4VZ5zbiiAK7AgqSeGH"
          [] k = "wallet_address_uuid" -> NilPtr
          [] k = "network" -> "tron"
          [] k = "currency" -> "TRX"
          [] k = "payer_currency" -> "TRX"
          [] k = "payer_amount" -> "207.00000000"
          [] k = "additional_data" -> NilPtr
          [] k = "convert" -> <<"USDT", NilPtr, "0.07700000", "0.22638000">>
          [] k = "txid" -> "6f0d9c83"
          [] k = "sign" -> ForgedSign]

\* the digest a sender holding `key` computes over the named members
SenderSign(update, names, key) ==
    HexEncode(MD5Sum(Base64Encode(MarshalUpdate(update, names)), key))

\* the signatures a notification may carry: computed by a sender over the
\* payment or the payout member set with either key, or forged
SignsFor(update) ==
    {SenderSign(update, names, key) :
        names \in {PaymentUpdateFields, PayoutUpdateFields}, key \in Keys}
    \cup {ForgedSign}

\* the values member k may be changed to in transit
TamperedValues(update, k) ==
    (CASE k = "type" -> UpdateTypes
       [] k = "convert" -> {<<>>, <<"USDT", NilPtr, "0.07700000", "9.99999999">>}
       [] k = "is_final" -> {"false", NilPtr}
       [] OTHER -> {"tampered", NilPtr})
    \ {update[k]}

\* the notification with member k changed to v
Tamper(update, k, v) == [update EXCEPT ![k] = v]

NoWebhook == [signed |-> ComposedUpdate(NilPtr), tampered |-> "none", update |-> ComposedUpdate(NilPtr)]

\* ------------------------------------------------------------------------
\* Unauthenticated functions: GetAssets, GetTrades, GetExchangeRate,
\* GetOrderBook
\* ------------------------------------------------------------------------

PublicOps == {"GetAssets", "GetTrades", "GetExchangeRate", "GetOrderBook"}

\* the arguments of the unauthenticated functions
PublicArguments(o) ==
    CASE o = "GetAssets" -> {RequestNil}
      [] o = "GetTrades" ->
            {[kind |-> "path", fields |-> <<Field("currencyPair", c, FALSE)>>]
                : c \in {"BTC_USDT", "ETH_USDT"}}
      [] o = "GetExchangeRate" ->
            {[kind |-> "path", fields |-> <<Field("currency", c, FALSE)>>]
                : c \in {"BTC", "ETH"}}
      [] o = "GetOrderBook" ->
            {[kind |-> "path",
              fields |-> <<Field("currencyPair", "BTC_USDT", FALSE), Field("level", l, FALSE)>>]
                : l \in {"1", "2"}}

\* the URL each function formats from its arguments
PublicURL(o, args) ==
    CASE o = "GetAssets" -> <<"urlGetAssets">>
      [] o = "GetTrades" -> <<"urlGetTrades", args.fields[1].val>>
      [] o = "GetExchangeRate" -> <<"urlGetExchangeRate", args.fields[1].val>>
      [] o = "GetOrderBook" ->
            <<"urlGetOrderBook", args.fields[1].val, "?level=", args.fields[2].val>>

\* no signature: http.Get sets no header
NoSign == <<>>

\* http.Get(url): a GET without a body and without headers
HTTPGet(url) ==
    [method |-> "GET", url |-> url, body |-> <<>>,
     header |-> [ContentType |-> NilPtr, idName |-> NilPtr, idValue |-> NilPtr,
                 sign |-> NoSign]]

\* GetAssets without the `responseStruct.State != 0` test
GetAssets_NoStateTest(resp) ==
    IF resp.kind = "neterr"
    THEN Outcome("transport", <<"error sending GET request: ">>, NilPtr, <<>>)
    ELSE IF resp.kind = "garbage"
    THEN Outcome("decode", <<"error decoding response payload: ">>, NilPtr, <<>>)
    ELSE IF resp.status # StatusOK
    THEN Outcome("business",
                 <<"error fetching assets with status ", StatusText(resp.status)>>,
                 NilPtr, <<>>)
    ELSE Outcome("ok", <<>>, resp.payload, <<>>)

\* GetAssets after http.Get
GetAssets(resp) ==
    IF resp.kind = "neterr"
    THEN Outcome("transport", <<"error sending GET request: ">>, NilPtr, <<>>)
    ELSE IF resp.kind = "garbage"
    THEN Outcome("decode", <<"error decoding response payload: ">>, NilPtr, <<>>)
    ELSE IF resp.status # StatusOK \/ resp.state # 0
    THEN Outcome("business",
                 <<"error fetching assets with status ", StatusText(resp.status)>>,
                 NilPtr, <<>>)
    ELSE Outcome("ok", <<>>, resp.payload, <<>>)

\* GetTrades after http.Get
GetTrades(resp) ==
    IF resp.kind = "neterr"
    THEN Outcome("transport", <<"error sending GET request: ">>, NilPtr, <<>>)
    ELSE IF resp.kind = "garbage"
    THEN Outcome("decode", <<"error decoding response payload: ">>, NilPtr, <<>>)
    ELSE IF resp.status # StatusOK \/ resp.message # ""
    THEN Outcome("business",
                 <<"error with status ", StatusText(resp.status), ": ", resp.message>>,
                 NilPtr, <<>>)
    ELSE Outcome("ok", <<>>, resp.payload, <<>>)

\* GetExchangeRate failing on a status other than 200 or a non-zero state
GetExchangeRate_ChecksStatus(resp) ==
    IF resp.kind = "neterr"
    THEN Outcome("transport", <<"Get: ">>, NilPtr, <<>>)
    ELSE IF resp.kind = "garbage"
    THEN Outcome("decode", <<"invalid character">>, NilPtr, <<>>)
    ELSE IF resp.status # StatusOK \/ resp.state # 0
    THEN Outcome("business", <<"error with status ", StatusText(resp.status)>>, NilPtr, <<>>)
    ELSE Outcome("ok", <<>>, resp.payload, <<>>)

\* GetExchangeRate after http.Get: the errors of http.Get and of the decoder
\* are returned as they are; the status and `state` are not looked at
GetExchangeRate(resp) ==
    IF resp.kind = "neterr"
    THEN Outcome("transport", <<"Get: ">>, NilPtr, <<>>)
    ELSE IF resp.kind = "garbage"
    THEN Outcome("decode", <<"invalid character">>, NilPtr, <<>>)
    ELSE Outcome("ok", <<>>, resp.payload, <<>>)

\* strings.Split(s, sep) for a one-character separator, over text given as
\* a sequence of characters
RECURSIVE Split(_, _)
Split(s, sep) ==
    IF \A i \in DOMAIN s : s[i] # sep THEN <<s>>
    ELSE LET k == CHOOSE i \in DOMAIN s : s[i] = sep /\ \A j \in 1..(i - 1) : s[j] # sep
         IN <<SubSeq(s, 1, k - 1)>> \o Split(SubSeq(s, k + 1, Len(s)), sep)

DigitChars == {"0", "1", "2", "3", "4", "5", "6", "7", "8", "9"}

DigitValue(c) ==
    CASE c = "0" -> 0 [] c = "1" -> 1 [] c = "2" -> 2 [] c = "3" -> 3 [] c = "4" -> 4
      [] c = "5" -> 5 [] c = "6" -> 6 [] c = "7" -> 7 [] c = "8" -> 8 [] c = "9" -> 9

\* strconv.ParseInt(s, 10, 64) succeeds on a non-empty run of decimal digits
\* (the texts of the model carry no sign and stay below 2^63)
ParseIntOK(s) == s # <<>> /\ \A i \in DOMAIN s : s[i] \in DigitChars

RECURSIVE ParseInt(_)
\* the value strconv.ParseInt returns for a run of decimal digits
ParseInt(s) ==
    IF s = <<>> THEN 0
    ELSE 10 * ParseInt(SubSeq(s, 1, Len(s) - 1)) + DigitValue(s[Len(s)])

\* strings.Repeat(c, count) for count >= 0
Repeat(c, count) == [i \in 1..count |-> c]

\* what parseUnixTimeString returns: time.Unix(seconds, nanoseconds), an
\* error, or a panic
TimeResult(kind, seconds, nanoseconds) ==
    [kind |-> kind, seconds |-> seconds, nanoseconds |-> nanoseconds]

\* parseUnixTimeString: strings.Repeat panics on the negative count it gets
\* for a fraction of more than 9 digits
parseUnixTimeString(unixDecimal) ==
    LET parts == Split(unixDecimal, ".")
    IN IF ~ParseIntOK(parts[1]) THEN TimeResult("error", 0, 0)
       ELSE IF Len(parts) = 2
       THEN IF 9 - Len(parts[2]) < 0 THEN TimeResult("panic", 0, 0)
            ELSE LET fractionalPart == parts[2] \o Repeat("0", 9 - Len(parts[2]))
                 IN IF ~ParseIntOK(fractionalPart) THEN TimeResult("error", 0, 0)
                    ELSE TimeResult("ok", ParseInt(parts[1]), ParseInt(fractionalPart))
       ELSE TimeResult("ok", ParseInt(parts[1]), 0)

\* the text one entry of the order book `errors` list is formatted to
FormatOrderBookError(e) ==
    <<"property: ", e.property, ", value: ", e.value, ", message: ", e.message>>

RECURSIVE JoinTexts(_, _)
\* strings.Join over texts that are token sequences
JoinTexts(texts, sep) ==
    IF texts = <<>> THEN <<>>
    ELSE IF Len(texts) = 1 THEN texts[1]
    ELSE texts[1] \o <<sep>> \o JoinTexts(Tail(texts), sep)

\* GetOrderBook after http.Get; the timestamp is returned in `items` as
\* <<seconds, nanoseconds>> and bids and asks in `payload`
GetOrderBook(resp) ==
    IF resp.kind = "neterr"
    THEN Outcome("transport", <<"error sending GET request: ">>, NilPtr, <<>>)
    ELSE IF resp.kind = "garbage"
    THEN Outcome("decode", <<"error decoding response payload: ">>, NilPtr, <<>>)
    ELSE LET errs == (IF resp.message # "" THEN <<<<resp.message>>>> ELSE <<>>)
                     \o [i \in DOMAIN resp.errors |-> FormatOrderBookError(resp.errors[i])]
                     \o (IF resp.error # "" THEN <<<<resp.error>>>> ELSE <<>>)
             timestamp == parseUnixTimeString(resp.timestamp)
         IN IF resp.status # StatusOK \/ Len(errs) > 0
            THEN Outcome("business",
                         <<"error with status ", StatusText(resp.status), ": ">>
                            \o JoinTexts(errs, "; "),
                         NilPtr, <<>>)
            ELSE IF timestamp.kind = "panic"
            THEN Outcome("panic", <<"strings: negative Repeat count">>, NilPtr, <<>>)
            ELSE IF timestamp.kind = "error"
            THEN Outcome("timestamp", <<"error converting timestamp: ">>, NilPtr, <<>>)
            ELSE Outcome("ok", <<>>, resp.payload,
                         <<timestamp.seconds, timestamp.nanoseconds>>)

\* the whole seconds of the order book timestamps
TimestampSeconds == <<"1", "7", "2", "4", "0", "6", "9", "7", "9", "7">>

\* the first n digits of the fraction 1308000007777...
TimestampFraction(n) ==
    [i \in 1..n |-> CASE i = 1 -> "1" [] i = 2 -> "3" [] i = 4 -> "8"
                      [] i > 9 -> "7" [] OTHER -> "0"]

\* the `data.timestamp` texts the provider sends: absent, whole seconds, and
\* seconds with a fraction of 1 to MaxFractionDigits digits
Timestamps ==
    {<<>>, TimestampSeconds}
    \cup {TimestampSeconds \o <<".">> \o TimestampFraction(n) : n \in 1..MaxFractionDigits}

\* the entries of the order book `errors` list
OrderBookErrors ==
    {<<>>, <<[property |-> "level", value |-> "9", message |-> "validation.max"]>>}

\* everything that can come back for the GET of an unauthenticated function
PublicResponses(o) ==
    TransportFailures \cup UndecodableResponses \cup
    CASE o \in {"GetAssets", "GetExchangeRate"} ->
            {Response("json", st, state, "", "", FALSE, <<>>, pl, ZeroPage) :
                st \in StatusCodes, state \in {0, 1}, pl \in Payloads}
      [] o = "GetTrades" ->
            {Response("json", st, 0, msg, "", FALSE, <<>>, pl, ZeroPage) :
                st \in StatusCodes, msg \in Messages, pl \in Payloads}
      [] o = "GetOrderBook" ->
            {Response("json", st, 0, msg, err, errs # <<>>, errs, pl, ZeroPage)
                @@ [timestamp |-> ts] :
                st \in StatusCodes, msg \in Messages, err \in ErrorStrings,
                errs \in OrderBookErrors, pl \in Payloads, ts \in Timestamps}

\* what is kept of the response of an unauthenticated function
PublicSummary(resp) ==
    [kind |-> resp.kind, status |-> resp.status, state |-> resp.state,
     carriers |-> resp.message # "" \/ resp.error # "" \/ resp.hasErrors,
     nextCursor |-> ""]

\* the function of the package an unauthenticated call runs after http.Get
PublicDecode(o, resp) ==
    CASE o = "GetAssets" -> GetAssets(resp)
      [] o = "GetTrades" -> GetTrades(resp)
      [] o = "GetExchangeRate" -> GetExchangeRate(resp)
      [] o = "GetOrderBook" -> GetOrderBook(resp)

\* ------------------------------------------------------------------------
\* State
\* ------------------------------------------------------------------------

VARIABLES
    merchant,   \* the Merchant context: MerchantUUID, PaymentAPIKey, PayoutAPIKey
    user,       \* the User context: UserID, PaymentAPIKey, PayoutAPIKey
    pc,         \* "idle", "await" (blocked in client.Do) or "done" (returned)
    op,         \* the operation being executed, "none" when idle
    request,    \* the request value the caller passed
    filters,    \* orderType and orderStatus of ListOrderHistory
    chain,      \* the page chain the provider holds for this listing call
    sent,       \* the HTTP requests this call has handed to client.Do, in order
    received,   \* a summary of each response this call has got back, in order
    last,       \* the response this call has got back last
    webhook,    \* the notification given to VerifySign: as signed, the member
                \* changed in transit ("none": unchanged), and as delivered
    page,       \* the listing function's `page` variable that its loop tests
    acc,        \* the items the listing function has accumulated
    outcome,    \* what the call returned
    calls,      \* per concurrent caller: the position and the local variables
                \* of its call (send function and wrapper)
    wire        \* per concurrent caller: the round trip client.Do runs for it

vars == <<merchant, user, pc, op, request, filters, chain, sent, received, last, webhook, page, acc,
          outcome, calls, wire>>

NoFilters == [orderType |-> "", orderStatus |-> ""]

\* NewMerchant(merchantUUID, paymentAPIKey, PayoutAPIKey)
NewMerchant(merchantUUID, paymentAPIKey, payoutAPIKey) ==
    [MerchantUUID |-> merchantUUID, PaymentAPIKey |-> paymentAPIKey,
     PayoutAPIKey |-> payoutAPIKey]

\* NewUser(userID, paymentAPIKey, payoutAPIKey)
NewUser(userID, paymentAPIKey, payoutAPIKey) ==
    [UserID |-> userID, PaymentAPIKey |-> paymentAPIKey,
     PayoutAPIKey |-> payoutAPIKey]

\* the goroutines that share the Merchant and the User
Callers == {"caller1", "caller2"}

NoBody == <<>>

\* a caller that has not called yet
IdleCall ==
    [pc |-> "idle", op |-> "none", request |-> RequestNil, jsonData |-> NoBody,
     signature |-> NoSign, httpRequest |-> HTTPGet(<<>>), outcome |-> NoOutcome]

\* no round trip in progress
NoRoundTrip == [state |-> "none", request |-> HTTPGet(<<>>), response |-> NoResponse]

Init ==
    /\ calls = [c \in Callers |-> IdleCall]
    /\ wire = [c \in Callers |-> NoRoundTrip]
    /\ merchant \in {NewMerchant("merchant-1", k[1], k[2]) : k \in MerchantKeyPairs}
    /\ user \in {NewUser("user-1", k[1], k[2]) : k \in UserKeyPairs}
    /\ pc = "idle"
    /\ op = "none"
    /\ request = RequestNil
    /\ filters = NoFilters
    /\ chain = <<>>
    /\ sent = <<>>
    /\ received = <<>>
    /\ last = NoResponse
    /\ webhook = NoWebhook
    /\ page = ZeroPage
    /\ acc = <<>>
    /\ outcome = NoOutcome

\* the send function an operation calls, applied to its context
SendRequestAs(m, u, d, url, req) ==
    CASE d.persona = "Merchant" /\ d.context = "payment" ->
            MerchantSendPaymentRequest(m, d.method, url, req)
      [] d.persona = "Merchant" /\ d.context = "payout" ->
            MerchantSendPayoutRequest(m, d.method, url, req)
      [] d.persona = "User" /\ d.context = "payment" ->
            UserSendPaymentRequest(u, d.method, url, req)
      [] d.persona = "User" /\ d.context = "payout" ->
            UserSendPayoutRequest(u, d.method, url, req)

\* the send function called on the Merchant or User the caller holds
SendRequest(d, url, req) == SendRequestAs(merchant, user, d, url, req)

\* the URL of the first request: the endpoint, for ListOrderHistory followed
\* by the type and status filters
FirstURL(o, f) ==
    <<OpDesc(o).url>>
    \o (IF o = "ListOrderHistory" /\ f.orderType # "" THEN <<"?type=", f.orderType>> ELSE <<>>)
    \o (IF o = "ListOrderHistory" /\ f.orderStatus # "" THEN <<"?status=", f.orderStatus>> ELSE <<>>)

\* the URL of the request of operation o called with req: CancelLimitOrder
\* formats the caller's orderUuid into its endpoint
RequestURL(o, f, req) ==
    IF o = "CancelLimitOrder"
    THEN <<OpDesc(o).url, req.fields[1].val>>
    ELSE FirstURL(o, f)

\* http.NewRequest fails when net/url cannot parse the URL
NewRequestFails(url) == "<control character>" \in Range(url)

\* the URL a page fetcher builds from the cursor it is given
NextURL(o, cursor, f) ==
    IF o = "ListOrderHistory"
    THEN <<nextOrderHistoryPage.url>>
         \o (IF cursor # "" THEN <<"?cursor=", cursor>> ELSE <<>>)
         \o (IF f.orderType # "" THEN <<"?type=", f.orderType>> ELSE <<>>)
         \o (IF f.orderStatus # "" THEN <<"?status=", f.orderStatus>> ELSE <<>>)
    ELSE <<NextDesc(o).url, "?cursor=", cursor>>

\* the request value a page fetcher sends
NextBody(o) ==
    IF o = "ListRecurringPayments" THEN RequestEmptyStruct ELSE RequestNil

\* the request value the first request carries
FirstBody(o, req) ==
    CASE o \in {"ListRecurringPayments", "CreateMarketOrder", "CalculateConvert",
                 "CancelLimitOrder"} -> RequestEmptyStruct
      [] o = "ListOrderHistory" -> RequestNil
      [] OTHER -> req

\* what an operation returns when the send function could not build the
\* request: the error, before client.Do is reached
RequestFailure == Outcome("request", <<"error creating request: ">>, NilPtr, <<>>)

\* the text a listing function wraps a page fetcher's error in
PagingPrefix(o) ==
    CASE o = "ListPaymentHistory" -> "error paging payment history: "
      [] o = "ListPayoutHistory" -> "error paging payout history: "
      [] o = "ListRecurringPayments" -> "error paging recurring payments: "
      [] o = "ListOrderHistory" -> "error paging orders history: "

\* PagingFailure returning the slice accumulated so far next to the error
PagingFailure_PartialList(o, err, accumulated) ==
    Outcome("paging", <<PagingPrefix(o)>> \o err.text, NilPtr, accumulated)

\* what a listing function returns when a page fetcher failed: the wrapped
\* error and a nil slice, whatever has been accumulated
PagingFailure(o, err, accumulated) ==
    Outcome("paging", <<PagingPrefix(o)>> \o err.text, NilPtr, <<>>)

\* PageAfterFetch as if every listing declared a new `page` in its loop body
PageAfterFetch_Shadowed(o, current, fetched) == current

\* the `page` the loop condition reads after a page fetch succeeded:
\* ListOrderHistory assigns the fetched page to it; the three Merchant
\* listings declare a new `page` inside the loop body (`page, err := ...`),
\* so the variable the condition reads keeps the first page
PageAfterFetch(o, current, fetched) ==
    IF o = "ListOrderHistory" THEN fetched ELSE current

\* ------------------------------------------------------------------------
\* Actions
\* ------------------------------------------------------------------------

\* a caller invokes operation o: the wrapper marshals, signs and sends the
\* first request and blocks in client.Do
Invoke(o) ==
    /\ pc = "idle"
    /\ \E req \in RequestsOf(o), f \in [orderType : OrderTypes, orderStatus : OrderStatuses],
          c \in Chains \cup {<<>>} :
        /\ (o = "ListOrderHistory") \/ (f = NoFilters)
        /\ (o \in ListingOps) <=> (c # <<>>)
        /\ op' = o
        /\ request' = req
        /\ filters' = f
        /\ chain' = c
        /\ IF NewRequestFails(RequestURL(o, f, req))
           THEN /\ sent' = <<>>
                /\ pc' = "done"
                /\ outcome' = RequestFailure
           ELSE /\ sent' = <<SendRequest(OpDesc(o), RequestURL(o, f, req), FirstBody(o, req))>>
                /\ pc' = "await"
                /\ outcome' = NoOutcome
    /\ received' = <<>>
    /\ last' = NoResponse
    /\ webhook' = NoWebhook
    /\ page' = ZeroPage
    /\ acc' = <<>>
    /\ UNCHANGED <<calls, wire, merchant, user>>

\* Complete storing the payout key in the Merchant's PaymentAPIKey
Complete_OverwritesKey ==
    /\ pc = "await"
    /\ op \in SimpleOps
    /\ \E resp \in SimpleResponses(OpDesc(op)) :
        /\ received' = Append(received, Summary(OpDesc(op), resp))
        /\ last' = resp
        /\ outcome' = Decode(OpDesc(op), resp)
    /\ pc' = "done"
    /\ merchant' = [merchant EXCEPT !.PaymentAPIKey = merchant.PayoutAPIKey]
    /\ UNCHANGED <<calls, wire, user, op, request, filters, chain, sent, webhook, page, acc>>

\* the response of a non-listing operation arrives and the wrapper decodes
\* it and returns
Complete ==
    /\ pc = "await"
    /\ op \in SimpleOps
    /\ \E resp \in SimpleResponses(OpDesc(op)) :
        /\ received' = Append(received, Summary(OpDesc(op), resp))
        /\ last' = resp
        /\ outcome' = Decode(OpDesc(op), resp)
    /\ pc' = "done"
    /\ UNCHANGED <<calls, wire, merchant, user, op, request, filters, chain, sent, webhook, page, acc>>

\* LoopFrom sending the request for the next page twice at once
LoopFrom_SendsTwice(newPage, newAcc) ==
    IF newPage.nextCursor = ""
    THEN /\ pc' = "done"
         /\ outcome' = Outcome("ok", <<>>, NilPtr, newAcc)
         /\ sent' = sent
    ELSE /\ Len(sent) < MaxRequests
         /\ pc' = "await"
         /\ outcome' = outcome
         /\ sent' = sent \o <<SendRequest(NextDesc(op),
                                          NextURL(op, newPage.nextCursor, filters),
                                          NextBody(op)),
                               SendRequest(NextDesc(op),
                                          NextURL(op, newPage.nextCursor, filters),
                                          NextBody(op))>>

\* the listing loop from its condition on: either the function returns the
\* accumulated items, or the page fetcher sends the next request
LoopFrom(newPage, newAcc) ==
    IF newPage.nextCursor = ""
    THEN /\ pc' = "done"
         /\ outcome' = Outcome("ok", <<>>, NilPtr, newAcc)
         /\ sent' = sent
    ELSE /\ Len(sent) < MaxRequests
         /\ pc' = "await"
         /\ outcome' = outcome
         /\ sent' = Append(sent, SendRequest(NextDesc(op),
                                             NextURL(op, newPage.nextCursor, filters),
                                             NextBody(op)))

\* the response to the first request of a listing operation arrives
ReceiveFirstPage ==
    /\ pc = "await"
    /\ op \in ListingOps
    /\ received = <<>>
    /\ \E resp \in PageResponses(OpDesc(op), chain, sent[1].url) :
        LET o == Decode(OpDesc(op), resp)
        IN /\ received' = <<Summary(OpDesc(op), resp)>>
           /\ last' = resp
           /\ IF o.kind # "ok"
              THEN /\ outcome' = o
                   /\ pc' = "done"
                   /\ UNCHANGED <<sent, page, acc>>
              ELSE /\ acc' = resp.page.items
                   /\ page' = resp.page
                   /\ LoopFrom(resp.page, resp.page.items)
    /\ UNCHANGED <<calls, wire, merchant, user, op, request, filters, chain, webhook>>

\* the response to a follow-up page request arrives
ReceiveNextPage ==
    /\ pc = "await"
    /\ op \in ListingOps
    /\ received # <<>>
    /\ \E resp \in PageResponses(NextDesc(op), chain, sent[Len(sent)].url) :
        LET o == Decode(NextDesc(op), resp)
        IN /\ received' = Append(received, Summary(NextDesc(op), resp))
           /\ last' = resp
           /\ IF o.kind # "ok"
              THEN /\ outcome' = PagingFailure(op, o, acc)
                   /\ pc' = "done"
                   /\ UNCHANGED <<sent, page, acc>>
              ELSE /\ acc' = acc \o resp.page.items
                   /\ page' = PageAfterFetch(op, page, resp.page)
                   /\ LoopFrom(PageAfterFetch(op, page, resp.page), acc \o resp.page.items)
    /\ UNCHANGED <<calls, wire, merchant, user, op, request, filters, chain, webhook>>

\* a webhook receiver hands a decoded notification to Merchant.VerifySign:
\* the sender composed and signed it, and one member may have been changed
\* in transit
VerifySignCall ==
    /\ pc = "idle"
    /\ \E t \in UpdateTypes :
       \E sg \in SignsFor(ComposedUpdate(t)) :
       \E k \in Range(UpdateFields) \cup {"none"} :
       \E v \in (IF k = "none" THEN {"same"} ELSE TamperedValues(ComposedUpdate(t), k)) :
        LET signed == [ComposedUpdate(t) EXCEPT !["sign"] = sg]
            delivered == IF k = "none" THEN signed ELSE Tamper(signed, k, v)
            result == VerifySign(merchant, delivered)
        IN /\ webhook' = [signed |-> signed, tampered |-> k, update |-> delivered]
           /\ outcome' = Outcome(result, VerifyErrorText(result), NilPtr, <<>>)
    /\ op' = "VerifySign"
    /\ pc' = "done"
    /\ UNCHANGED <<calls, wire, merchant, user, request, filters, chain, sent, received, last, page, acc>>

\* the caller takes the outcome; the context is ready for the next call
Return ==
    /\ pc = "done"
    /\ pc' = "idle"
    /\ op' = "none"
    /\ request' = RequestNil
    /\ filters' = NoFilters
    /\ chain' = <<>>
    /\ sent' = <<>>
    /\ received' = <<>>
    /\ last' = NoResponse
    /\ webhook' = NoWebhook
    /\ page' = ZeroPage
    /\ acc' = <<>>
    /\ outcome' = NoOutcome
    /\ UNCHANGED <<calls, wire, merchant, user>>

\* a caller invokes an unauthenticated function, which blocks in http.Get
InvokePublic(o) ==
    /\ pc = "idle"
    /\ \E args \in PublicArguments(o) :
        /\ request' = args
        /\ sent' = <<HTTPGet(PublicURL(o, args))>>
    /\ op' = o
    /\ pc' = "await"
    /\ filters' = NoFilters
    /\ chain' = <<>>
    /\ received' = <<>>
    /\ last' = NoResponse
    /\ webhook' = NoWebhook
    /\ page' = ZeroPage
    /\ acc' = <<>>
    /\ outcome' = NoOutcome
    /\ UNCHANGED <<calls, wire, merchant, user>>

\* the response to the GET arrives and the function decodes it and returns
CompletePublic ==
    /\ pc = "await"
    /\ op \in PublicOps
    /\ \E resp \in PublicResponses(op) :
        /\ received' = Append(received, PublicSummary(resp))
        /\ last' = resp
        /\ outcome' = PublicDecode(op, resp)
    /\ pc' = "done"
    /\ UNCHANGED <<calls, wire, merchant, user, op, request, filters, chain, sent, webhook, page, acc>>

Next ==
    \/ \E o \in Ops : Invoke(o)
    \/ \E o \in PublicOps : InvokePublic(o)
    \/ CompletePublic
    \/ Complete
    \/ ReceiveFirstPage
    \/ ReceiveNextPage
    \/ VerifySignCall
    \/ Return

Spec == Init /\ [][Next]_vars

\* ------------------------------------------------------------------------
\* Concurrent calls on one Merchant and one User: each goroutine runs the
\* send function on its own local variables, step by step
\* ------------------------------------------------------------------------

\* the operations called concurrently
ConcurrentOps == {"CreateInvoice", "CreatePayout", "CreateMarketOrder"}

\* the responses the provider gives to concurrent calls
ConcurrentResponses(d) ==
    TransportFailures
    \cup {r \in UndecodableResponses : r.status # 422}
    \cup {Response("json", StatusOK, 0, "", "", FALSE, <<>>, pl, ZeroPage) : pl \in ResultPayloads(d)}
    \cup {Response("json", 500, 1, "Server error", "", FALSE, <<>>, NilPtr, ZeroPage)}

\* the signer the send function of descriptor d calls, on the shared context
Sign(d, jsonData) ==
    CASE d.persona = "Merchant" /\ d.context = "payment" ->
            MerchantSignPaymentPayload(merchant, jsonData)
      [] d.persona = "Merchant" /\ d.context = "payout" ->
            MerchantSignPayoutPayload(merchant, jsonData)
      [] d.persona = "User" /\ d.context = "payment" ->
            UserSignPaymentPayload(user, jsonData)
      [] d.persona = "User" /\ d.context = "payout" ->
            UserSignPayoutPayload(user, jsonData)

\* caller c enters operation o: the send function marshals the request
\* value into its local jsonData
CallMarshal(c, o) ==
    /\ calls[c].pc = "idle"
    /\ \E req \in RequestsOf(o) :
          calls' = [calls EXCEPT ![c] = [@ EXCEPT !.pc = "marshalled", !.op = o,
                                                  !.request = req,
                                                  !.jsonData = Marshal(FirstBody(o, req))]]
    /\ UNCHANGED <<merchant, user, pc, op, request, filters, chain, sent, received, last,
                   webhook, page, acc, outcome, wire>>

\* CallSign signing the bytes some caller marshalled last into a buffer the
\* callers share
CallSign_SharedBuffer(c) ==
    /\ calls[c].pc = "marshalled"
    /\ \E o \in Callers :
        /\ calls[o].jsonData # NoBody
        /\ calls' = [calls EXCEPT ![c] = [@ EXCEPT !.pc = "signed",
                                   !.signature = Sign(OpDesc(calls[c].op), calls[o].jsonData)]]
    /\ UNCHANGED <<merchant, user, pc, op, request, filters, chain, sent, received, last,
                   webhook, page, acc, outcome, wire>>

\* the send function of caller c signs its local jsonData
CallSign(c) ==
    /\ calls[c].pc = "marshalled"
    /\ calls' = [calls EXCEPT ![c] = [@ EXCEPT !.pc = "signed",
                               !.signature = Sign(OpDesc(calls[c].op), calls[c].jsonData)]]
    /\ UNCHANGED <<merchant, user, pc, op, request, filters, chain, sent, received, last,
                   webhook, page, acc, outcome, wire>>

\* the send function of caller c sets the headers and hands the request to
\* client.Do, which starts a round trip of its own for it
CallDo(c) ==
    /\ calls[c].pc = "signed"
    /\ LET d == OpDesc(calls[c].op)
           httpRequest ==
               HTTPRequest(d.method, RequestURL(calls[c].op, NoFilters, calls[c].request),
                           calls[c].jsonData,
                           IF d.persona = "Merchant" THEN "merchant" ELSE "userId",
                           IF d.persona = "Merchant" THEN merchant.MerchantUUID ELSE user.UserID,
                           calls[c].signature)
       IN /\ calls' = [calls EXCEPT ![c] = [@ EXCEPT !.pc = "await",
                                                     !.httpRequest = httpRequest]]
          /\ wire' = [wire EXCEPT ![c] = [state |-> "request", request |-> httpRequest,
                                          response |-> NoResponse]]
    /\ UNCHANGED <<merchant, user, pc, op, request, filters, chain, sent, received, last,
                   webhook, page, acc, outcome>>

\* the provider answers the request of the round trip of caller c
Respond(c) ==
    /\ wire[c].state = "request"
    /\ \E resp \in ConcurrentResponses(OpDesc(calls[c].op)) :
          wire' = [wire EXCEPT ![c] = [@ EXCEPT !.state = "response", !.response = resp]]
    /\ UNCHANGED <<merchant, user, pc, op, request, filters, chain, sent, received, last,
                   webhook, page, acc, outcome, calls>>

\* client.Do returns to caller c the response of its round trip and the
\* wrapper decodes it and returns
CallReturn(c) ==
    /\ calls[c].pc = "await"
    /\ wire[c].state = "response"
    /\ calls' = [calls EXCEPT ![c] = [@ EXCEPT !.pc = "done",
                               !.outcome = Decode(OpDesc(calls[c].op), wire[c].response)]]
    /\ UNCHANGED <<merchant, user, pc, op, request, filters, chain, sent, received, last,
                   webhook, page, acc, outcome, wire>>

NextConcurrent ==
    \/ \E c \in Callers, o \in ConcurrentOps : CallMarshal(c, o)
    \/ \E c \in Callers : CallSign(c)
    \/ \E c \in Callers : CallDo(c)
    \/ \E c \in Callers : Respond(c)
    \/ \E c \in Callers : CallReturn(c)

SpecConcurrent == Init /\ [][NextConcurrent]_vars

\* ------------------------------------------------------------------------
\* Properties
\* ------------------------------------------------------------------------

\* the call returned an error value to its caller
ReturnedError ==
    outcome.kind \in {"request", "transport", "decode", "business", "paging", "mismatch",
                      "unsupported", "timestamp"}

\* the call returned a result and a nil error
ReturnedResult == outcome.kind = "ok"

\* the `errors.<field>` lists each response struct declares
RecognizedFields(o) ==
    CASE o = "CreateInvoice" -> {"amount", "currency", "order_id"}
      [] o = "CreatePayout" -> {"amount", "currency", "order_id", "address", "is_subtract", "network"}
      [] o \in {"GetPaymentInformation", "GetPayoutInformation"} -> {"uuid", "order_id"}
      [] o = "CreateStaticWallet" -> {"currency", "network", "order_id"}
      [] o = "TransferToPersonalWallet" -> {"amount", "currency"}
      [] o \in {"ListPaymentHistory", "ListPayoutHistory"} -> {"date_from", "date_to"}
      [] OTHER -> {}

\* the response is a decodable envelope with HTTP 200, state 0 and every
\* carrier the operation recognizes empty
CleanEnvelope(o, resp) ==
    /\ resp.kind = "json"
    /\ resp.status = 200
    /\ resp.state = 0
    /\ resp.message = ""
    /\ resp.error = ""
    /\ \A f \in RecognizedFields(o) : ~(resp.hasErrors /\ f \in DOMAIN resp.errors)

C1Ops == {"CreateInvoice", "CreatePayout", "GetPaymentInformation", "CreateStaticWallet"}

\* C1: CreateInvoice, CreatePayout, GetPaymentInformation and
\* CreateStaticWallet return the decoded result and no error exactly when the
\* status is 200, state is 0 and message, error and every recognized
\* errors.<field> list are empty; otherwise an error and no result
C1_SuccessIffClean ==
    (pc = "done" /\ op \in C1Ops) =>
        IF CleanEnvelope(op, last)
        THEN ReturnedResult /\ outcome.payload = last.payload
        ELSE ReturnedError /\ outcome.payload = NilPtr

\* a success whose envelope carries an `errors` member the struct does not
\* declare
C1_Witness ==
    /\ pc = "done"
    /\ op = "CreateStaticWallet"
    /\ ReturnedResult
    /\ last.hasErrors
    /\ "other" \in DOMAIN last.errors

\* a follow-up or first response that delivered its page
Delivered(r) ==
    r.kind = "json" /\ r.status = 200 /\ r.state = 0 /\ ~r.carriers

MerchantListings == {"ListPaymentHistory", "ListPayoutHistory", "ListRecurringPayments"}

\* C2: against a chain p1..pn served without failures, the three Merchant
\* listings issue exactly n requests, request i+1 carries the cursor of page
\* i, and the result is items(p1) .. items(pn) in order
C2_WalksTheChain ==
    (op \in MerchantListings /\ \A i \in DOMAIN received : Delivered(received[i])) =>
        /\ Len(sent) <= Len(chain)
        /\ \A i \in 2..Len(sent) : CursorParam(sent[i].url) = <<Cursors[i - 1]>>
        /\ (pc = "done" => /\ Len(sent) = Len(chain)
                           /\ ReturnedResult
                           /\ outcome.items = Concat(chain))

\* C3: once a page with an empty nextCursor has been received, no further
\* request is issued: a request is never in flight after such a page
C3_StopsAtLastPage ==
    op \in MerchantListings =>
        \A i \in DOMAIN received :
            (Delivered(received[i]) /\ received[i].nextCursor = "") => Len(sent) <= i

\* the last response is a failure of the kinds a page fetch can meet
FetchFailed(resp) ==
    \/ resp.kind \in {"neterr", "garbage"}
    \/ resp.status # 200
    \/ resp.state # 0
    \/ resp.message # ""
    \/ resp.error # ""

\* C4: when the fetch of a follow-up page fails, a listing operation returns
\* an error and none of the items accumulated from the earlier pages
C4_NoPartialList ==
    (pc = "done" /\ op \in ListingOps /\ Len(received) >= 2 /\ FetchFailed(last)) =>
        /\ ReturnedError
        /\ outcome.items = <<>>

\* a follow-up fetch failed after items had been accumulated
C4_Witness ==
    /\ pc = "done"
    /\ op \in ListingOps
    /\ Len(received) >= 2
    /\ FetchFailed(last)
    /\ acc # <<>>
    /\ ReturnedError

PaymentContextOps ==
    {"CreateInvoice", "GetPaymentInformation", "CreateStaticWallet",
     "ListPaymentHistory", "ListRecurringPayments", "ListOrderHistory"}

PayoutContextOps ==
    {"CreatePayout", "GetPayoutInformation", "ListPayoutHistory", "TransferToPersonalWallet"}

\* the context that executes an operation
ContextOf(o) == IF o \in UserOps THEN user ELSE merchant

\* the digest of section 4.1 over a body and a key
ReferenceSign(body, key) == HexEncode(MD5Sum(Base64Encode(body), key))

\* C5: every request of a payment-context operation is signed with the
\* PaymentAPIKey and every request of a payout-context operation with the
\* PayoutAPIKey, follow-up pages included
C5_KeyByOperation ==
    \A i \in DOMAIN sent :
        /\ op \in PaymentContextOps =>
              sent[i].header.sign = ReferenceSign(sent[i].body, ContextOf(op).PaymentAPIKey)
        /\ op \in PayoutContextOps =>
              sent[i].header.sign = ReferenceSign(sent[i].body, ContextOf(op).PayoutAPIKey)

\* a follow-up page of ListPayoutHistory went out under distinct keys
C5_Witness ==
    /\ op = "ListPayoutHistory"
    /\ Len(sent) >= 2
    /\ merchant.PaymentAPIKey # merchant.PayoutAPIKey

\* C6: every request sent carries Content-Type application/json, the
\* identity header of its persona, and a sign header that is the digest of
\* exactly the bytes sent as its body under a key of its context
C6_HeadersAndSignedBody ==
    op \in Ops => \A i \in DOMAIN sent :
        /\ sent[i].header.ContentType = "application/json"
        /\ IF op \in UserOps
           THEN sent[i].header.idName = "userId" /\ sent[i].header.idValue = user.UserID
           ELSE sent[i].header.idName = "merchant" /\ sent[i].header.idValue = merchant.MerchantUUID
        /\ \E key \in {ContextOf(op).PaymentAPIKey, ContextOf(op).PayoutAPIKey} :
              sent[i].header.sign = ReferenceSign(sent[i].body, key)

\* a request with a non-trivial body is in flight
C6_Witness ==
    /\ pc = "await"
    /\ op = "CreateInvoice"
    /\ Len(sent) = 1
    /\ Len(sent[1].body) > 2

\* VerifySign ran on a notification
Verified == pc = "done" /\ op = "VerifySign"

\* C7: VerifySign returns no error exactly when the type is payment or
\* wallet and sign is the digest of the payment member set under the
\* PaymentAPIKey, or the type is payout and sign is the digest of the payout
\* member set under the PayoutAPIKey; any other sign is rejected with an error
C7_AcceptsExactlyValidSign ==
    Verified =>
        LET u == webhook.update
            valid ==
                \/ /\ u["type"] \in {"payment", "wallet"}
                   /\ u["sign"] = SenderSign(u, PaymentUpdateFields, merchant.PaymentAPIKey)
                \/ /\ u["type"] = "payout"
                   /\ u["sign"] = SenderSign(u, PayoutUpdateFields, merchant.PayoutAPIKey)
        IN /\ ReturnedResult <=> valid
           /\ (u["type"] \in {"payment", "wallet", "payout"} /\ ~valid) =>
                 outcome.kind = "mismatch"

\* a payout notification signed with the payment key was rejected
C7_Witness ==
    /\ Verified
    /\ webhook.update["type"] = "payout"
    /\ merchant.PaymentAPIKey # merchant.PayoutAPIKey
    /\ webhook.update["sign"] = SenderSign(webhook.update, PayoutUpdateFields, merchant.PaymentAPIKey)
    /\ outcome.kind = "mismatch"

\* the notification left its sender with the valid signature of its category
ValidlySigned(u) ==
    \/ /\ u["type"] \in {"payment", "wallet"}
       /\ u["sign"] = SenderSign(u, PaymentUpdateFields, merchant.PaymentAPIKey)
    \/ /\ u["type"] = "payout"
       /\ u["sign"] = SenderSign(u, PayoutUpdateFields, merchant.PayoutAPIKey)

\* C8 as stated: for a validly signed payment, wallet or payout notification,
\* changing any one member other than sign makes VerifySign return a
\* signature mismatch
C8_AnyFieldChangeDetected ==
    (/\ Verified
     /\ ValidlySigned(webhook.signed)
     /\ webhook.tampered # "none"
     /\ webhook.update["type"] \in {"payment", "wallet", "payout"}) =>
        outcome.kind = "mismatch"

\* the members VerifySign covers for the payment and wallet categories
C8_PaymentCovered ==
    {"type", "uuid", "order_id", "amount", "payment_amount", "payment_amount_usd",
     "merchant_amount", "commission", "is_final", "status", "from",
     "wallet_address_uuid", "network", "currency", "payer_currency",
     "additional_data", "convert", "txid"}

\* the members VerifySign covers for the payout category
C8_PayoutCovered ==
    {"type", "uuid", "order_id", "amount", "merchant_amount", "commission",
     "is_final", "status", "txid", "currency", "network", "payer_currency",
     "payer_amount"}

\* C8 as amended: for a validly signed notification whose type stays one of
\* payment, wallet and payout, changing one member makes VerifySign return a
\* signature mismatch exactly when the member belongs to the member set
\* signed for the notification's category; a change outside it is accepted
C8_CoveredFieldChangeDetected ==
    (/\ Verified
     /\ ValidlySigned(webhook.signed)
     /\ webhook.tampered # "none"
     /\ webhook.update["type"] \in {"payment", "wallet", "payout"}) =>
        LET covered == IF webhook.signed["type"] = "payout"
                       THEN C8_PayoutCovered ELSE C8_PaymentCovered
        IN IF webhook.tampered \in covered
           THEN outcome.kind = "mismatch"
           ELSE ReturnedResult

\* the amount of a validly signed payment notification was changed and the
\* change was detected
C8_Witness ==
    /\ Verified
    /\ ValidlySigned(webhook.signed)
    /\ webhook.signed["type"] = "payment"
    /\ webhook.tampered = "amount"
    /\ outcome.kind = "mismatch"

\* C9: for every type other than payment, wallet and payout, an absent type
\* included, VerifySign fails with the unsupported-category error
C9_UnsupportedTypeRejected ==
    (Verified /\ webhook.update["type"] \notin {"payment", "wallet", "payout"}) =>
        outcome.kind = "unsupported"

\* the descriptor of the request the last response answers
LastDesc == IF Len(received) <= 1 THEN OpDesc(op) ELSE NextDesc(op)

\* every message a populated carrier of the response holds: message, error
\* and the entries of the recognized errors.<field> lists
CarriedMessages(d, resp) ==
    (IF resp.message # "" THEN {resp.message} ELSE {})
    \cup (IF resp.error # "" THEN {resp.error} ELSE {})
    \cup UNION {Range(ErrorsField(resp, f)) : f \in Range(d.errFields)}

\* how many messages the populated carriers hold
RECURSIVE CountEntries(_, _)
CountEntries(resp, fs) ==
    IF fs = {} THEN 0
    ELSE LET f == CHOOSE x \in fs : TRUE
         IN Len(ErrorsField(resp, f)) + CountEntries(resp, fs \ {f})

\* the text after the last ": " of a business error: the joined messages
Detail(text) == SubSeq(text, 1 + (CHOOSE i \in DOMAIN text : text[i] = ": "), Len(text))

\* C10: a business failure is one error whose text holds the HTTP status
\* text and every collected message, the messages joined with "; "; a state 1
\* response with errors.amount = ["validation.required"] to CreateInvoice or
\* CreatePayout yields an error containing "validation.required"
C10_BusinessErrorText ==
    /\ (pc = "done" /\ op \in Ops /\ outcome.kind \in {"business", "paging"} /\ last.kind = "json") =>
          LET detail == Detail(outcome.text)
              count == (IF last.message # "" THEN 1 ELSE 0)
                       + (IF last.error # "" THEN 1 ELSE 0)
                       + CountEntries(last, Range(LastDesc.errFields))
          IN /\ outcome.payload = NilPtr /\ outcome.items = <<>>
             /\ StatusText(last.status) \in Range(outcome.text)
             /\ CarriedMessages(LastDesc, last) \subseteq Range(detail)
             /\ Len(detail) = IF count = 0 THEN 0 ELSE 2 * count - 1
             /\ \A i \in DOMAIN detail : (i % 2 = 0) <=> (detail[i] = "; ")
    /\ (/\ pc = "done"
        /\ op \in {"CreateInvoice", "CreatePayout"}
        /\ last.kind = "json"
        /\ last.state = 1
        /\ last.hasErrors
        /\ "amount" \in DOMAIN last.errors
        /\ last.errors["amount"] = <<"validation.required">>) =>
          /\ outcome.kind = "business"
          /\ "validation.required" \in Range(outcome.text)

\* CreatePayout got state 1 with errors.amount = ["validation.required"] and
\* a second populated field
C10_Witness ==
    /\ pc = "done"
    /\ op = "CreatePayout"
    /\ last.kind = "json"
    /\ last.state = 1
    /\ last.hasErrors
    /\ DOMAIN last.errors = {"amount", "network"}
    /\ last.errors["amount"] = <<"validation.required">>
    /\ outcome.kind = "business"

\* the messages of a response in the order message, recognized fields, error
MessageFieldsError(d, resp) ==
    (IF resp.message # "" THEN <<resp.message>> ELSE <<>>)
    \o Concat([i \in DOMAIN d.errFields |-> ErrorsField(resp, d.errFields[i])])
    \o (IF resp.error # "" THEN <<resp.error>> ELSE <<>>)

\* C11: in the error of a failing call the collected messages appear in the
\* order flat message, then the recognized fields' validation messages in
\* the call's field order, then the generic error string
C11_MessageFieldsErrorOrder ==
    (pc = "done" /\ op \in SimpleOps /\ outcome.kind = "business") =>
        Detail(outcome.text) = Join(MessageFieldsError(OpDesc(op), last), "; ")

\* C12: GenerateQRCodeForStaticWallet returns an error and no result for
\* every decoded response whose HTTP status is not 200 or whose state is not
\* 0, also when no message, error or validation message is populated
C12_QRCodeFailureWithoutDetail ==
    (/\ pc = "done"
     /\ op = "GenerateQRCodeForStaticWallet"
     /\ last.kind = "json"
     /\ (last.status # StatusOK \/ last.state # 0)) =>
        /\ ReturnedError
        /\ outcome.payload = NilPtr

\* C13: a first page with HTTP 200, state 0 and a populated message, error
\* or recognized errors field makes the three Merchant listings return an
\* error without fetching a further page
C13_FirstPageCarriersFail ==
    (/\ op \in MerchantListings
     /\ received # <<>>
     /\ received[1].kind = "json"
     /\ received[1].status = StatusOK
     /\ received[1].state = 0
     /\ received[1].carriers) =>
        /\ pc = "done"
        /\ ReturnedError
        /\ Len(sent) = 1

TransferOps == {"TransferToPersonalWallet", "TransferToBusinessWallet"}

\* C14: the two transfer operations, given HTTP 200 and an envelope with
\* state 0, no message, no error and no errors object, return the result
\* payload unchanged and no error
C14_TransferCleanEnvelope ==
    (/\ pc = "done"
     /\ op \in TransferOps
     /\ last.kind = "json"
     /\ last.status = StatusOK
     /\ last.state = 0
     /\ last.message = ""
     /\ last.error = ""
     /\ ~last.hasErrors) =>
        /\ ReturnedResult
        /\ outcome.payload = last.payload

\* the operations whose parameter is a request value
RequestValueOps ==
    {"CreateInvoice", "CreatePayout", "GetPaymentInformation", "GetPayoutInformation",
     "CreateStaticWallet", "TransferToPersonalWallet", "TransferToBusinessWallet",
     "Refund", "GenerateQRCodeForStaticWallet", "GenerateQRCodeForInvoice",
     "CreateMarketOrder", "CalculateConvert", "ListPaymentHistory", "ListPayoutHistory"}

\* C15: the body of the request an operation sends for a request value is
\* the JSON serialization of that value
C15_BodyIsCallersRequest ==
    (op \in RequestValueOps /\ sent # <<>>) => sent[1].body = Marshal(request)

\* C16: ListOrderHistory without filters, against a chain p1..pn served
\* without failures, issues exactly n requests, request i+1 carrying the
\* nextCursor of page i, and returns items(p1) .. items(pn) in page order
\* and page-internal order, unsorted and with recurring items kept
C16_OrderHistoryWalksTheChain ==
    (/\ op = "ListOrderHistory"
     /\ filters = NoFilters
     /\ \A i \in DOMAIN received : Delivered(received[i])) =>
        /\ Len(sent) <= Len(chain)
        /\ \A i \in 2..Len(sent) : CursorParam(sent[i].url) = <<Cursors[i - 1]>>
        /\ (pc = "done" => /\ Len(sent) = Len(chain)
                           /\ ReturnedResult
                           /\ outcome.items = Concat(chain))

\* ListOrderHistory returned the items of a chain of two pages that are not
\* sorted and share an item
C16_Witness ==
    /\ pc = "done"
    /\ op = "ListOrderHistory"
    /\ filters = NoFilters
    /\ chain = <<<<2, 9>>, <<4, 9>>>>
    /\ Len(sent) = 2
    /\ \A i \in DOMAIN received : Delivered(received[i])
    /\ outcome.items = <<2, 9, 4, 9>>

\* C17: the `cursor` query parameter of every follow-up page request is
\* exactly the nextCursor of the page received before it, for every listing
\* operation and every combination of ListOrderHistory filters
C17_CursorRoundTrip ==
    \A i \in 2..Len(sent) :
        CursorParam(sent[i].url) = <<received[i - 1].nextCursor>>

\* the caller's orderUuid makes the URL of CancelLimitOrder unparsable
UnparsableOrderUuid ==
    op = "CancelLimitOrder" /\ request.fields[1].val = "<control character>"

\* C18: a non-listing operation hands exactly one request to client.Do, or
\* none when the request could not be built; the request is never repeated,
\* and a transport failure is returned as an error with no result
C18_ExactlyOneCall ==
    op \in SimpleOps =>
        /\ Len(sent) = IF UnparsableOrderUuid THEN 0 ELSE 1
        /\ (Len(sent) = 0) => (pc = "done" /\ outcome = RequestFailure)
        /\ (pc = "done" /\ last.kind = "neterr") =>
              /\ outcome.kind = "transport"
              /\ outcome.payload = NilPtr
        /\ (pc = "done") => Len(received) = Len(sent)

\* the only request of a non-listing operation met a transport failure
C18_Witness ==
    /\ pc = "done"
    /\ op \in SimpleOps
    /\ Len(sent) = 1
    /\ last.kind = "neterr"
    /\ outcome.kind = "transport"

\* C19: a response body that is not the JSON envelope makes every operation
\* return a decoding error and no result, whatever the HTTP status; the
\* error is not the business error (it carries no status text)
C19_DecodingErrorDistinct ==
    (pc = "done" /\ op \in Ops /\ last.kind = "garbage") =>
        /\ outcome.kind \in {"decode", "paging"}
        /\ outcome.payload = NilPtr
        /\ outcome.items = <<>>
        /\ "error decoding response: " \in Range(outcome.text)
        /\ \A st \in StatusCodes : StatusText(st) \notin Range(outcome.text)

\* an undecodable body arrived under a failure status
C19_Witness ==
    /\ pc = "done"
    /\ op \in SimpleOps
    /\ last.kind = "garbage"
    /\ last.status = 500
    /\ outcome.kind = "decode"

\* C20: no step of any operation, successful or failing, changes the
\* identity or the keys of the Merchant or of the User
C20_ContextImmutable == [][merchant' = merchant /\ user' = user]_vars

\* a failing and then a later call have run on contexts that still hold the
\* constructor's values
C20_Witness ==
    /\ pc = "done"
    /\ outcome.kind = "business"
    /\ merchant \in {NewMerchant("merchant-1", k[1], k[2]) : k \in MerchantKeyPairs}
    /\ user \in {NewUser("user-1", k[1], k[2]) : k \in UserKeyPairs}

\* C22: for every body sent and every key, the four signers return the same
\* token hex(MD5(base64(body) followed by key)) and a nil error
C22_SignersAgree ==
    \A i \in DOMAIN sent : \A k \in Keys :
        LET b == sent[i].body
        IN /\ MerchantSignPaymentPayload(NewMerchant("merchant-1", k, "other"), b) = ReferenceSign(b, k)
           /\ MerchantSignPayoutPayload(NewMerchant("merchant-1", "other", k), b) = ReferenceSign(b, k)
           /\ UserSignPaymentPayload(NewUser("user-1", k, "other"), b) = ReferenceSign(b, k)
           /\ UserSignPayoutPayload(NewUser("user-1", "other", k), b) = ReferenceSign(b, k)
           /\ SignerError(b) = NilPtr

\* a body with members has been signed by a context whose keys differ
C22_Witness ==
    /\ sent # <<>>
    /\ Len(sent[1].body) > 2
    /\ merchant.PaymentAPIKey # merchant.PayoutAPIKey
    /\ sent[1].header.sign = MerchantSignPayoutPayload(merchant, sent[1].body)

\* C23: the page requests of a listing call are strictly sequential: a
\* request is issued only when every earlier one has been answered, so at
\* most one is in flight
C23_PagesSequential ==
    op \in ListingOps =>
        /\ Len(sent) <= Len(received) + 1
        /\ (pc = "await") => Len(sent) = Len(received) + 1
        /\ (pc = "done") => Len(sent) = Len(received)

\* the second page request is in flight after the first page was received
C23_Witness ==
    /\ op \in ListingOps
    /\ pc = "await"
    /\ Len(sent) = 2
    /\ Len(received) = 1

\* C24: GetAssets and GetTrades send a plain GET without identity or sign
\* header; GetAssets returns the decoded list and no error when the status
\* is 200 and state is 0 and an error without a list otherwise; GetTrades
\* returns its data and no error exactly when the status is 200 and the
\* message is empty
C24_AssetsAndTrades ==
    /\ op \in {"GetAssets", "GetTrades"} =>
          \A i \in DOMAIN sent :
              /\ sent[i].method = "GET"
              /\ sent[i].body = <<>>
              /\ sent[i].header.idName = NilPtr
              /\ sent[i].header.idValue = NilPtr
              /\ sent[i].header.sign = NoSign
    /\ (pc = "done" /\ op = "GetAssets" /\ last.kind = "json") =>
          IF last.status = StatusOK /\ last.state = 0
          THEN outcome.kind = "ok" /\ outcome.payload = last.payload
          ELSE ReturnedError /\ outcome.payload = NilPtr
    /\ (pc = "done" /\ op = "GetTrades" /\ last.kind = "json") =>
          IF last.status = StatusOK /\ last.message = ""
          THEN outcome.kind = "ok" /\ outcome.payload = last.payload
          ELSE ReturnedError /\ outcome.payload = NilPtr

\* GetAssets has failed on an HTTP 200 response whose state is 1
C24_Witness ==
    /\ pc = "done"
    /\ op = "GetAssets"
    /\ last.kind = "json"
    /\ last.status = StatusOK
    /\ last.state = 1
    /\ outcome.kind = "business"

\* the fraction of a second that the digits after the point denote, in
\* nanoseconds
FractionNanoseconds(digits) ==
    ParseInt(SubSeq(digits \o Repeat("0", 9), 1, 9))

\* the text has the form <digits> or <digits>.<digits>
DecimalSeconds(text) ==
    LET parts == Split(text, ".")
    IN Len(parts) \in {1, 2} /\ \A i \in DOMAIN parts : ParseIntOK(parts[i])

\* C25: on an HTTP 200 response without message, errors or error,
\* GetOrderBook returns the bids and asks of the response, no error, and the
\* instant of the timestamp text: its whole seconds plus its fractional
\* digits as a fraction of a second, whatever the number of those digits
C25_OrderBookTimestamp ==
    (/\ pc = "done"
     /\ op = "GetOrderBook"
     /\ last.kind = "json"
     /\ last.status = StatusOK
     /\ last.message = ""
     /\ last.error = ""
     /\ ~last.hasErrors
     /\ DecimalSeconds(last.timestamp)) =>
        LET parts == Split(last.timestamp, ".")
        IN /\ outcome.kind = "ok"
           /\ outcome.payload = last.payload
           /\ outcome.items = <<ParseInt(parts[1]),
                                IF Len(parts) = 2 THEN FractionNanoseconds(parts[2]) ELSE 0>>

\* C28: GetExchangeRate returns an error only when the GET or the decoding
\* fails; for every decodable response it returns the decoded result and no
\* error, whatever the HTTP status and the state
C28_ExchangeRateIgnoresStatus ==
    (pc = "done" /\ op = "GetExchangeRate") =>
        /\ ReturnedError <=> last.kind \in {"neterr", "garbage"}
        /\ last.kind = "json" => outcome.kind = "ok" /\ outcome.payload = last.payload

\* GetExchangeRate has returned the result of an HTTP 500 response whose
\* state is 1
C28_Witness ==
    /\ pc = "done"
    /\ op = "GetExchangeRate"
    /\ last.kind = "json"
    /\ last.status = 500
    /\ last.state = 1
    /\ outcome.kind = "ok"
    /\ outcome.payload = last.payload

\* C26: for every decodable response Merchant.GetBalance returns either the
\* balance lists or an error; on HTTP 200 with state 0, no message and an
\* empty or absent `result` list it completes normally
C26_GetBalanceCompletes ==
    (pc = "done" /\ op = "GetBalance" /\ last.kind = "json") =>
        ReturnedResult \/ ReturnedError

\* C27: each operation sends its request to its own endpoint, the endpoint
\* of no other operation: TransferToBusinessWallet does not post to the
\* endpoint of CreateInvoice, nor GenerateQRCodeForInvoice to the endpoint
\* of GenerateQRCodeForStaticWallet
C27_OwnEndpoint ==
    op \in Ops =>
        \A i \in DOMAIN sent : \A o \in Ops \ {op} : sent[i].url[1] # OpDesc(o).url

\* the wrapper or page fetcher that sent the i-th request of the call
SenderOf(i) == IF i = 1 THEN OpDesc(op) ELSE NextDesc(op)

\* the i-th request of the call as a Merchant m and a User u send it
SentAs(m, u, i) ==
    IF i = 1
    THEN SendRequestAs(m, u, OpDesc(op), RequestURL(op, filters, request), FirstBody(op, request))
    ELSE SendRequestAs(m, u, NextDesc(op), sent[i].url, NextBody(op))

\* the Merchant and the User with their keys replaced
Rekeyed(ctx, paymentAPIKey, payoutAPIKey) ==
    [ctx EXCEPT !.PaymentAPIKey = paymentAPIKey, !.PayoutAPIKey = payoutAPIKey]

\* C29: no request carries PaymentAPIKey or PayoutAPIKey: the keys occur
\* neither in the URL, nor in a header other than sign, nor in the body, and
\* the same call made with any other keys sends a request that differs in
\* the sign header at most
C29_KeysOnlyInDigest ==
    \A i \in DOMAIN sent :
        /\ \A k \in Keys :
              /\ k \notin Range(sent[i].url)
              /\ k \notin Range(sent[i].body)
              /\ k \notin {sent[i].header.ContentType, sent[i].header.idName,
                           sent[i].header.idValue}
        /\ op \in Ops =>
              \A k1 \in Keys, k2 \in Keys :
                  LET other == SentAs(Rekeyed(merchant, k1, k2), Rekeyed(user, k1, k2), i)
                  IN [other EXCEPT !.header.sign = sent[i].header.sign] = sent[i]

\* a payout request with members in its body has been sent by a Merchant
\* whose keys differ
C29_Witness ==
    /\ op = "CreatePayout"
    /\ sent # <<>>
    /\ Len(sent[1].body) > 2
    /\ merchant.PaymentAPIKey # merchant.PayoutAPIKey
    /\ sent[1].header.sign # SentAs(Rekeyed(merchant, "keyA", "keyA"), user, 1).header.sign

\* C30: a payment-context request is the same for every PayoutAPIKey of the
\* context and a payout-context request the same for every PaymentAPIKey,
\* and the outcome of a call is determined by the operation and the
\* provider's response, not by the keys
C30_OtherKeyIrrelevant ==
    op \in Ops =>
        /\ \A i \in DOMAIN sent : \A k \in Keys :
              /\ SenderOf(i).context = "payment" =>
                    SentAs(Rekeyed(merchant, merchant.PaymentAPIKey, k),
                           Rekeyed(user, user.PaymentAPIKey, k), i) = sent[i]
              /\ SenderOf(i).context = "payout" =>
                    SentAs(Rekeyed(merchant, k, merchant.PayoutAPIKey),
                           Rekeyed(user, k, user.PayoutAPIKey), i) = sent[i]
        /\ (pc = "done" /\ op \in SimpleOps /\ sent # <<>>) =>
              outcome = Decode(OpDesc(op), last)

\* a payment-context call has returned on a Merchant whose payout key
\* differs from its payment key
C30_Witness ==
    /\ pc = "done"
    /\ op = "CreateInvoice"
    /\ outcome.kind = "ok"
    /\ merchant.PaymentAPIKey # merchant.PayoutAPIKey
    /\ sent[1].header.sign = ReferenceSign(sent[1].body, merchant.PaymentAPIKey)

\* the key of the context an operation runs in
OwnKey(o) ==
    IF OpDesc(o).context = "payment" THEN ContextOf(o).PaymentAPIKey
    ELSE ContextOf(o).PayoutAPIKey

\* C21: under every interleaving of concurrent calls on one Merchant or
\* User, the request of each call carries the serialization of that call's
\* own request value and, as sign, its digest under the key of the call's own
\* context, and each caller returns the outcome decoded from the response to
\* its own request
C21_CallsIsolated ==
    \A c \in Callers :
        /\ calls[c].pc \in {"await", "done"} =>
              /\ calls[c].httpRequest.body = Marshal(FirstBody(calls[c].op, calls[c].request))
              /\ calls[c].httpRequest.header.sign =
                    ReferenceSign(calls[c].httpRequest.body, OwnKey(calls[c].op))
              /\ calls[c].httpRequest =
                    SendRequest(OpDesc(calls[c].op),
                                RequestURL(calls[c].op, NoFilters, calls[c].request),
                                FirstBody(calls[c].op, calls[c].request))
              /\ wire[c].request = calls[c].httpRequest
        /\ calls[c].pc = "done" =>
              calls[c].outcome = Decode(OpDesc(calls[c].op), wire[c].response)

\* one call has returned its own result while the response to another call,
\* made with another body and another key, was waiting on its round trip
C21_Witness ==
    /\ calls["caller1"].pc = "done"
    /\ calls["caller1"].op = "CreateInvoice"
    /\ calls["caller1"].outcome.kind = "ok"
    /\ calls["caller2"].pc = "await"
    /\ calls["caller2"].op = "CreatePayout"
    /\ wire["caller2"].state = "response"
    /\ wire["caller2"].response.status = 500
    /\ wire["caller2"].response # wire["caller1"].response
    /\ merchant.PaymentAPIKey # merchant.PayoutAPIKey

====
